---- MODULE Spec2Model ----
(***************************************************************************)
(* Model of the MCP tool-provider supervisor (agent/mcp_client.py) and of  *)
(* the agent's tool catalog and dispatch loop (agent/agent.py).            *)
(*                                                                         *)
(* Coroutines are modelled as tasks with a call stack.  A task runs        *)
(* without interruption between two awaits (variable running names the     *)
(* task that holds the event-loop thread); at an await it releases the     *)
(* thread and any other task may be resumed.                               *)
(*                                                                         *)
(* Names are sequences of tokens; the token "_" is the separator the       *)
(* namespacing rule inserts between a server name and a tool name.         *)
(***************************************************************************)
EXTENDS Integers, Sequences, FiniteSets, TLC

(* ------------------------------ bounds --------------------------------- *)
NumTasks == 2
MaxProcs == 2
MaxTurns == 2
MaxRounds == 1
MaxLoops == 2

Tasks == 1..NumTasks
NoTask == 0
NoProc == 0
NoName == <<>>

(* ------------------------- the environment ----------------------------- *)
Sep == "_"
ServerNames == { <<"alpha">>, <<"alpha", "_", "x">> }
\* the servers registered where the bridge is called directly: the name of one
\* is the text before the '_' of the local tool demo_tool
BridgeNames == { <<"alpha", "_", "x">>, <<"demo">> }
Paths == { "mcp_server.py", "missing.py" }
ExistingPaths == { "mcp_server.py" }

\* os.path.exists(server_path)
PathExists(p) == p \in ExistingPaths

\* a falsy inputSchema (None or {})
EmptySchema == [type |-> "none", properties |-> {}]

\* what each provider answers to a list request
ProviderTools(name) ==
    IF name = <<"demo">>
    THEN << [name |-> <<"tool">>, description |-> "tool",
             inputSchema |-> EmptySchema],
            [name |-> <<"echo">>, description |-> "echo",
             inputSchema |-> EmptySchema] >>
    ELSE IF name = <<"alpha">>
    THEN << [name |-> <<"x", "_", "ping">>, description |-> "ping x",
             inputSchema |-> [type |-> "object", properties |-> {"host"}]],
            [name |-> <<"echo">>, description |-> "echo",
             inputSchema |-> EmptySchema] >>
    ELSE << [name |-> <<"ping">>, description |-> "ping",
             inputSchema |-> [type |-> "object", properties |-> {"count"}]] >>

\* what each provider answers to a call request: the content items of the
\* result; a tool it does not have is answered with an error result
ProviderContent(name, tool_name) ==
    IF \E i \in 1..Len(ProviderTools(name)) : ProviderTools(name)[i].name = tool_name
    THEN IF tool_name = <<"echo">>
         THEN << [text |-> <<"echo">>], [data |-> <<"png">>], [text |-> <<"done">>] >>
         ELSE IF tool_name = <<"ping">>
         THEN << >>
         ELSE << [text |-> <<"pong">>] >>
    ELSE << [text |-> <<"Unknown tool:">> \o tool_name] >>

\* str(e) of what a call request can raise
ProviderErrors == { <<"connection closed">>, <<"missing", "background_tasks">> }

(* ------------------------- Python dictionaries ------------------------- *)
\* A dict is the sequence of its items in insertion order.
DictHas(d, k) == \E i \in 1..Len(d) : d[i].k = k
DictIdx(d, k) == CHOOSE i \in 1..Len(d) : d[i].k = k
DictGet(d, k) == d[DictIdx(d, k)].v
DictPut(d, k, v) ==
    IF DictHas(d, k)
    THEN [d EXCEPT ![DictIdx(d, k)] = [k |-> k, v |-> v]]
    ELSE Append(d, [k |-> k, v |-> v])
DictDel(d, k) == SelectSeq(d, LAMBDA e : e.k # k)
DictKeys(d) == [i \in 1..Len(d) |-> d[i].k]

(* ------------------------------ state ---------------------------------- *)
VARIABLES
    servers,         \* MCPClientManager.servers: name -> [path, connected]
    sessions,        \* MCPClientManager.sessions: name -> process
    stdio_contexts,  \* MCPClientManager.stdio_contexts: name -> process (NoProc: no key)
    procs,           \* per server name, the provider processes that are running
    tasks,           \* call stack of each coroutine
    running,         \* the task that holds the event-loop thread
    ret,             \* value returned by the step just taken, if it was a return
    phase,           \* "up", "shutdown" (lifespan cleanup), "stopped"
    mcp_tools_cache, \* PythonAgent.mcp_tools_cache
    messages,        \* PythonAgent.messages, the transcript
    invocation,      \* the arguments of the model call in progress
    open_loops,      \* the temporary event loops created and not closed
    MCP_SERVERS,     \* mcp_config.MCP_SERVERS: name -> [enabled]
    redis            \* the redis-dating provider's database: person hashes and index

agentVars == <<mcp_tools_cache, messages, invocation, open_loops, MCP_SERVERS, redis>>

vars == <<servers, sessions, stdio_contexts, procs, tasks, running, ret, phase,
          agentVars>>

Frame(fn, pc, name) ==
    [fn |-> fn, pc |-> pc, name |-> name, proc |-> NoProc,
     tool |-> NoName, i |-> 0, n |-> 0, keys |-> <<>>, acc |-> <<>>,
     api |-> <<>>, arguments |-> <<>>, call |-> <<>>, has_loop |-> FALSE,
     timed_out |-> FALSE]

\* answered lists the servers whose list request contributed to tools
Result(fn, name, ok, tools, exc) ==
    [fn |-> fn, name |-> name, ok |-> ok, tools |-> tools, exc |-> exc,
     answered |-> <<>>, value |-> <<>>, outcome |-> <<>>]

NoResult == Result("", NoName, FALSE, <<>>, FALSE)

\* self.mcp_tools_cache = None
NoCache == [set |-> FALSE, tools |-> <<>>]

\* no model call is in progress
NoInvocation == [fn |-> "", messages |-> <<>>, tools |-> <<>>, answered |-> <<>>]

\* an entry of the transcript
Message(role, content) ==
    [role |-> role, content |-> content, tool_calls |-> <<>>, tool_call_id |-> ""]

Top(t) == Head(tasks[t])
Idle(t) == tasks[t] = <<>>

\* the task has the thread and its innermost frame is fn at pc
AtSync(t, fn, pc) ==
    /\ running = t
    /\ ~Idle(t)
    /\ Top(t).fn = fn
    /\ Top(t).pc = pc

\* the task is suspended in fn at the await pc and the thread is free
AtAwait(t, fn, pc) ==
    /\ running = NoTask
    /\ ret = NoResult
    /\ ~Idle(t)
    /\ Top(t).fn = fn
    /\ Top(t).pc = pc

\* the innermost frame returns r; its caller, if any, continues at once
Return(t, r) ==
    /\ tasks' = [tasks EXCEPT ![t] = Tail(@)]
    /\ ret' = r
    /\ running' = IF Len(tasks[t]) = 1 THEN NoTask ELSE t

\* the innermost frame becomes f and waits at an await
Suspend(t, f) ==
    /\ tasks' = [tasks EXCEPT ![t] = <<f>> \o Tail(@)]
    /\ running' = NoTask
    /\ ret' = NoResult

\* the innermost frame becomes f and calls callee
Call(t, f, callee) ==
    /\ tasks' = [tasks EXCEPT ![t] = <<callee, f>> \o Tail(@)]
    /\ running' = t
    /\ ret' = NoResult

\* a request handler starts coroutine fn(name) on an idle task
Enter(t, fn, pc, name) ==
    /\ phase = "up"
    /\ running = NoTask
    /\ ret = NoResult
    /\ Idle(t)
    /\ tasks' = [tasks EXCEPT ![t] = <<Frame(fn, pc, name)>>]
    /\ running' = t
    /\ ret' = NoResult

Connected(s, name) == DictHas(s, name) /\ DictGet(s, name).connected

\* the processes of name that a table or a suspended coroutine refers to
Referenced(name) ==
    (IF DictHas(sessions, name) THEN {DictGet(sessions, name)} ELSE {})
    \cup {stdio_contexts[name]}
    \cup UNION { { tasks[t][j].proc : j \in { k \in 1..Len(tasks[t]) :
                                                  tasks[t][k].name = name } } :
                  t \in Tasks }

\* the identity of the next process of name: one nothing refers to any more
CanSpawn(name) == (1..MaxProcs) \ (procs[name] \cup Referenced(name)) # {}
FreshProc(name) ==
    CHOOSE p \in (1..MaxProcs) \ (procs[name] \cup Referenced(name)) :
        \A q \in (1..MaxProcs) \ (procs[name] \cup Referenced(name)) : p <= q


Init ==
    /\ servers = <<>>
    /\ sessions = <<>>
    /\ stdio_contexts = [name \in ServerNames \cup BridgeNames |-> NoProc]
    /\ procs = [name \in ServerNames \cup BridgeNames |-> {}]
    /\ tasks = [t \in Tasks |-> <<>>]
    /\ running = NoTask
    /\ ret = NoResult
    /\ phase = "up"
    /\ mcp_tools_cache = NoCache
    /\ messages = <<Message("system", "system prompt")>>
    /\ invocation = NoInvocation
    /\ open_loops = 0
    /\ MCP_SERVERS = [name \in ServerNames \cup BridgeNames |-> [enabled |-> TRUE]]
    /\ redis = [hashes |-> <<>>, people_all |-> {}]

(* ------------------------------ add_server ----------------------------- *)
add_server(name, path) ==
    /\ phase = "up"
    /\ running = NoTask
    /\ ret = NoResult
    /\ servers' = DictPut(servers, name, [path |-> path, connected |-> FALSE])
    /\ ret' = NoResult
    /\ UNCHANGED <<sessions, stdio_contexts, procs, tasks, running, phase>>

\* setup_mcp_server registers a server only when its script exists (its
\* other outcome, return False, changes nothing)
setup_mcp_server(name, path) ==
    /\ PathExists(path)
    /\ add_server(name, path)

(* ---------------------------- connect_server --------------------------- *)
call_connect_server(t, name) ==
    /\ Enter(t, "connect_server", "start", name)
    /\ UNCHANGED <<servers, sessions, stdio_contexts, procs, phase>>

\* connect_server without the os.path.exists check
connect_server_start_unchecked(t) ==
    /\ AtSync(t, "connect_server", "start")
    /\ LET name == Top(t).name IN
       IF ~DictHas(servers, name)
       THEN Return(t, Result("connect_server", name, FALSE, <<>>, FALSE))
       ELSE Suspend(t, [Top(t) EXCEPT !.pc = "spawn"])
    /\ UNCHANGED <<servers, sessions, stdio_contexts, procs, phase>>

\* the checks made before the process is spawned
connect_server_start(t) ==
    /\ AtSync(t, "connect_server", "start")
    /\ LET name == Top(t).name IN
       IF ~DictHas(servers, name)
       THEN Return(t, Result("connect_server", name, FALSE, <<>>, FALSE))
       ELSE IF ~PathExists(DictGet(servers, name).path)
       THEN Return(t, Result("connect_server", name, FALSE, <<>>, FALSE))
       ELSE Suspend(t, [Top(t) EXCEPT !.pc = "spawn"])
    /\ UNCHANGED <<servers, sessions, stdio_contexts, procs, phase>>

\* await stdio_context.__aenter__(): the provider process is spawned
connect_server_spawn(t) ==
    /\ AtAwait(t, "connect_server", "spawn")
    /\ CanSpawn(Top(t).name)
    /\ procs' = [procs EXCEPT ![Top(t).name] = @ \cup {FreshProc(Top(t).name)}]
    /\ Suspend(t, [Top(t) EXCEPT !.pc = "initialize",
                                  !.proc = FreshProc(Top(t).name)])
    /\ UNCHANGED <<servers, sessions, stdio_contexts, phase>>

\* the spawn raises: no process
connect_server_spawn_fails(t) ==
    /\ AtAwait(t, "connect_server", "spawn")
    /\ Return(t, Result("connect_server", Top(t).name, FALSE, <<>>, FALSE))
    /\ UNCHANGED <<servers, sessions, stdio_contexts, procs, phase>>

\* session.__aenter__() and session.initialize() succeed
connect_server_initialize(t) ==
    /\ AtAwait(t, "connect_server", "initialize")
    /\ LET name == Top(t).name
           p == Top(t).proc
       IN /\ p \in procs[name]
          /\ sessions' = DictPut(sessions, name, p)
          /\ stdio_contexts' = [stdio_contexts EXCEPT ![name] = p]
          /\ servers' = DictPut(servers, name,
                                [DictGet(servers, name) EXCEPT !.connected = TRUE])
          /\ Return(t, Result("connect_server", name, TRUE, <<>>, FALSE))
    /\ UNCHANGED <<procs, phase>>

\* the handshake raises: connect_server returns False
connect_server_initialize_fails(t) ==
    /\ AtAwait(t, "connect_server", "initialize")
    /\ Return(t, Result("connect_server", Top(t).name, FALSE, <<>>, FALSE))
    /\ UNCHANGED <<servers, sessions, stdio_contexts, procs, phase>>

(* -------------------------- disconnect_server -------------------------- *)
call_disconnect_server(t, name) ==
    /\ Enter(t, "disconnect_server", "start", name)
    /\ UNCHANGED <<servers, sessions, stdio_contexts, procs, phase>>

\* the flag reset without the guard: a KeyError for an unregistered name
disconnect_server_finish_unguarded(t, name) ==
    IF DictHas(servers, name)
    THEN /\ servers' = DictPut(servers, name,
                               [DictGet(servers, name) EXCEPT !.connected = FALSE])
         /\ Return(t, Result("disconnect_server", name, TRUE, <<>>, FALSE))
    ELSE /\ servers' = servers
         /\ Return(t, Result("disconnect_server", name, FALSE, <<>>, TRUE))

\* if name in self.servers: self.servers[name]['connected'] = False
disconnect_server_finish(t, name) ==
    /\ servers' = IF DictHas(servers, name)
                  THEN DictPut(servers, name,
                               [DictGet(servers, name) EXCEPT !.connected = FALSE])
                  ELSE servers
    /\ Return(t, Result("disconnect_server", name, TRUE, <<>>, FALSE))

\* if name in self.stdio_contexts: close the streams, else finish
disconnect_server_stdio(t, name) ==
    IF stdio_contexts[name] # NoProc
    THEN /\ Suspend(t, [Top(t) EXCEPT !.pc = "stdio_exit",
                                      !.proc = stdio_contexts[name]])
         /\ UNCHANGED servers
    ELSE disconnect_server_finish(t, name)

\* if name in self.sessions: close the session, else go on to the streams
disconnect_server_start(t) ==
    /\ AtSync(t, "disconnect_server", "start")
    /\ LET name == Top(t).name IN
       IF DictHas(sessions, name)
       THEN /\ Suspend(t, [Top(t) EXCEPT !.pc = "session_exit",
                                         !.proc = DictGet(sessions, name)])
            /\ UNCHANGED servers
       ELSE disconnect_server_stdio(t, name)
    /\ UNCHANGED <<sessions, stdio_contexts, procs, phase>>

\* await session.__aexit__() returns; del self.sessions[name] (a KeyError,
\* when another task removed the key meanwhile, is caught and logged)
disconnect_server_session_exit(t) ==
    /\ AtAwait(t, "disconnect_server", "session_exit")
    /\ sessions' = DictDel(sessions, Top(t).name)
    /\ disconnect_server_stdio(t, Top(t).name)
    /\ UNCHANGED <<stdio_contexts, procs, phase>>

\* await session.__aexit__() raises: the error is collected, the key stays
disconnect_server_session_exit_raises(t) ==
    /\ AtAwait(t, "disconnect_server", "session_exit")
    /\ disconnect_server_stdio(t, Top(t).name)
    /\ UNCHANGED <<sessions, stdio_contexts, procs, phase>>

\* await stdio_context.__aexit__() returns: the process is gone
disconnect_server_stdio_exit(t) ==
    /\ AtAwait(t, "disconnect_server", "stdio_exit")
    /\ LET name == Top(t).name IN
       /\ procs' = [procs EXCEPT ![name] = @ \ {Top(t).proc}]
       /\ stdio_contexts' = [stdio_contexts EXCEPT ![name] = NoProc]
       /\ disconnect_server_finish(t, name)
    /\ UNCHANGED <<sessions, phase>>

\* await stdio_context.__aexit__() raises: the key stays, the process may
\* or may not have been terminated
disconnect_server_stdio_exit_raises(t) ==
    /\ AtAwait(t, "disconnect_server", "stdio_exit")
    /\ LET name == Top(t).name IN
       /\ \E dies \in BOOLEAN :
            procs' = [procs EXCEPT ![name] = IF dies THEN @ \ {Top(t).proc} ELSE @]
       /\ disconnect_server_finish(t, name)
    /\ UNCHANGED <<sessions, stdio_contexts, phase>>

(* ----------------------------- disconnect_all -------------------------- *)
\* a loop that stops after the first server
disconnect_all_names_first(sess) ==
    IF Len(sess) > 1 THEN <<sess[1].k>> ELSE DictKeys(sess)

\* for name in list(self.sessions.keys())
disconnect_all_names(sess) == DictKeys(sess)

\* lifespan shutdown: await cleanup_mcp(), once every request has finished
cleanup_mcp(t) ==
    /\ phase = "up"
    /\ running = NoTask
    /\ ret = NoResult
    /\ \A u \in Tasks : Idle(u)
    /\ tasks' = [tasks EXCEPT ![t] =
                   << [Frame("disconnect_all", "loop", NoName)
                         EXCEPT !.keys = disconnect_all_names(sessions)] >>]
    /\ running' = t
    /\ ret' = NoResult
    /\ phase' = "shutdown"
    /\ UNCHANGED <<servers, sessions, stdio_contexts, procs>>

\* await self.disconnect_server(name) for the next name, or return
disconnect_all_loop(t) ==
    /\ AtSync(t, "disconnect_all", "loop")
    /\ LET f == Top(t) IN
       IF f.i < Len(f.keys)
       THEN /\ Call(t, [f EXCEPT !.i = f.i + 1,
                                  !.acc = Append(f.acc, f.keys[f.i + 1])],
                    Frame("disconnect_server", "start", f.keys[f.i + 1]))
            /\ UNCHANGED phase
       ELSE /\ Return(t, Result("disconnect_all", NoName, TRUE, <<>>, FALSE))
            /\ phase' = "stopped"
    /\ UNCHANGED <<servers, sessions, stdio_contexts, procs>>

(* --------------------------- get_server_tools -------------------------- *)
\* the schema is passed on as the provider gave it
ParametersAsGiven(schema) == schema

\* tool.inputSchema or {"type": "object", "properties": {}}
Parameters(schema) ==
    IF schema = EmptySchema THEN [type |-> "object", properties |-> {}]
    ELSE schema

\* the prefix without the separator
NamespacedNoSep(name, tool_name) == name \o tool_name

\* f"{name}_{tool.name}"
Namespaced(name, tool_name) == name \o <<Sep>> \o tool_name

\* the OpenAI function format of one MCP tool
OpenAITool(name, tool) ==
    [type |-> "function",
     function |-> [name |-> Namespaced(name, tool.name),
                   description |-> tool.description,
                   parameters |-> Parameters(tool.inputSchema)]]

OpenAITools(name, tools) == [i \in 1..Len(tools) |-> OpenAITool(name, tools[i])]

call_get_server_tools(t, name) ==
    /\ Enter(t, "get_server_tools", "start", name)
    /\ UNCHANGED <<servers, sessions, stdio_contexts, procs, phase>>

\* if name not in self.sessions: connect first
get_server_tools_start(t) ==
    /\ AtSync(t, "get_server_tools", "start")
    /\ LET name == Top(t).name IN
       IF ~DictHas(sessions, name)
       THEN Call(t, [Top(t) EXCEPT !.pc = "connected"],
                 Frame("connect_server", "start", name))
       ELSE Suspend(t, [Top(t) EXCEPT !.pc = "list_tools",
                                      !.proc = DictGet(sessions, name)])
    /\ UNCHANGED <<servers, sessions, stdio_contexts, procs, phase>>

\* connect_server returned: give up with [] or go on to the list request
get_server_tools_connected(t) ==
    /\ AtSync(t, "get_server_tools", "connected")
    /\ LET name == Top(t).name IN
       IF ~ret.ok
       THEN Return(t, Result("get_server_tools", name, FALSE, <<>>, FALSE))
       ELSE Suspend(t, [Top(t) EXCEPT !.pc = "list_tools",
                                      !.proc = DictGet(sessions, name)])
    /\ UNCHANGED <<servers, sessions, stdio_contexts, procs, phase>>

\* await session.list_tools() answers
get_server_tools_list(t) ==
    /\ AtAwait(t, "get_server_tools", "list_tools")
    /\ LET name == Top(t).name IN
       /\ Top(t).proc \in procs[name]
       /\ Return(t, Result("get_server_tools", name, TRUE,
                           OpenAITools(name, ProviderTools(name)), FALSE))
    /\ UNCHANGED <<servers, sessions, stdio_contexts, procs, phase>>

\* the list request outside the try block: the exception reaches the caller
get_server_tools_list_uncaught(t) ==
    /\ AtAwait(t, "get_server_tools", "list_tools")
    /\ Return(t, Result("get_server_tools", Top(t).name, FALSE, <<>>, TRUE))
    /\ UNCHANGED <<servers, sessions, stdio_contexts, procs, phase>>

\* await session.list_tools() raises: logged, []
get_server_tools_list_raises(t) ==
    /\ AtAwait(t, "get_server_tools", "list_tools")
    /\ Return(t, Result("get_server_tools", Top(t).name, FALSE, <<>>, FALSE))
    /\ UNCHANGED <<servers, sessions, stdio_contexts, procs, phase>>

(* ------------------------------- call_tool ----------------------------- *)
\* content_text += content.text for every item that has a text
RECURSIVE ContentText(_)
ContentText(content) ==
    IF content = <<>> THEN <<>>
    ELSE (IF "text" \in DOMAIN Head(content) THEN Head(content).text ELSE <<>>)
           \o ContentText(Tail(content))

\* only the first content item is read
ToolResultFirst(content) ==
    [success |-> TRUE,
     result |-> IF content # <<>> THEN ContentText(<<Head(content)>>)
                ELSE <<"CallToolResult()">>,
     raw_result |-> content]

\* the dict call_tool makes of the provider's result; str(result) when the
\* result has no content
ToolResult(content) ==
    [success |-> TRUE,
     result |-> IF content # <<>> THEN ContentText(content)
                ELSE <<"CallToolResult()">>,
     raw_result |-> content]

\* every exception message is passed on as it is
ToolErrorRaw(error_msg, server_name, tool_name) == [error |-> error_msg]

\* the dict call_tool makes of an exception
ToolError(error_msg, server_name, tool_name) ==
    IF \E i \in 1..Len(error_msg) : error_msg[i] = "background_tasks"
    THEN [error |-> <<"Tool">> \o tool_name
                      \o <<"requires FastAPI dependencies that are not available via MCP. Please use an alternative tool.">>,
          tool_name |-> tool_name, server_name |-> server_name]
    ELSE [error |-> error_msg]

\* {"error": f"Could not connect to server {server_name}"}
CouldNotConnect(server_name) ==
    [error |-> <<"Could not connect to server">> \o server_name]

call_call_tool(t, name, tool) ==
    /\ phase = "up"
    /\ running = NoTask
    /\ ret = NoResult
    /\ Idle(t)
    /\ tasks' = [tasks EXCEPT ![t] =
                   << [Frame("call_tool", "start", name) EXCEPT !.tool = tool] >>]
    /\ running' = t
    /\ ret' = NoResult
    /\ UNCHANGED <<servers, sessions, stdio_contexts, procs, phase>>

\* if server_name not in self.sessions: connect first
call_tool_start(t) ==
    /\ AtSync(t, "call_tool", "start")
    /\ LET name == Top(t).name IN
       IF ~DictHas(sessions, name)
       THEN Call(t, [Top(t) EXCEPT !.pc = "connected"],
                 Frame("connect_server", "start", name))
       ELSE Suspend(t, [Top(t) EXCEPT !.pc = "call_tool",
                                      !.proc = DictGet(sessions, name)])
    /\ UNCHANGED <<servers, sessions, stdio_contexts, procs, phase>>

\* connect_server returned: {"error": "Could not connect ..."} or the request
call_tool_connected(t) ==
    /\ AtSync(t, "call_tool", "connected")
    /\ LET name == Top(t).name IN
       IF ~ret.ok
       THEN Return(t, [Result("call_tool", name, FALSE, <<>>, FALSE)
                         EXCEPT !.value = CouldNotConnect(name)])
       ELSE Suspend(t, [Top(t) EXCEPT !.pc = "call_tool",
                                      !.proc = DictGet(sessions, name)])
    /\ UNCHANGED <<servers, sessions, stdio_contexts, procs, phase>>

\* await session.call_tool() answers
call_tool_call(t) ==
    /\ AtAwait(t, "call_tool", "call_tool")
    /\ Top(t).proc \in procs[Top(t).name]
    /\ Return(t, [Result("call_tool", Top(t).name, TRUE, <<>>, FALSE)
                    EXCEPT !.value =
                             ToolResult(ProviderContent(Top(t).name, Top(t).tool)),
                           !.outcome =
                             [content |-> ProviderContent(Top(t).name, Top(t).tool)]])
    /\ UNCHANGED <<servers, sessions, stdio_contexts, procs, phase>>

\* await session.call_tool() raises: {"error": str(e)}
call_tool_call_raises(t) ==
    /\ AtAwait(t, "call_tool", "call_tool")
    /\ \E error_msg \in ProviderErrors :
         Return(t, [Result("call_tool", Top(t).name, FALSE, <<>>, FALSE)
                      EXCEPT !.value = ToolError(error_msg, Top(t).name, Top(t).tool),
                             !.outcome = [raised |-> error_msg]])
    /\ UNCHANGED <<servers, sessions, stdio_contexts, procs, phase>>

(* ---------------------------- execute_mcp_tool ------------------------- *)
\* '_' in function_name
HasSep(function_name) ==
    \E i \in 1..Len(function_name) : function_name[i] = Sep

\* function_name.split('_', 1)
FirstSep(function_name) ==
    CHOOSE i \in 1..Len(function_name) :
        /\ function_name[i] = Sep
        /\ \A j \in 1..(i - 1) : function_name[j] # Sep
SplitServer(function_name) == SubSeq(function_name, 1, FirstSep(function_name) - 1)
SplitTool(function_name) ==
    SubSeq(function_name, FirstSep(function_name) + 1, Len(function_name))

\* the name is parsed and call_tool is awaited on the server it names
execute_mcp_tool_start(t) ==
    /\ AtSync(t, "execute_mcp_tool", "start")
    /\ LET function_name == Top(t).tool IN
       IF ~HasSep(function_name)
       THEN Return(t, [Result("execute_mcp_tool", NoName, FALSE, <<>>, FALSE)
                         EXCEPT !.value =
                           [error |-> <<"Invalid MCP function name format">>]])
       ELSE Call(t, [Top(t) EXCEPT !.pc = "return"],
                 [Frame("call_tool", "start", SplitServer(function_name))
                    EXCEPT !.tool = SplitTool(function_name),
                           !.arguments = Top(t).arguments])
    /\ UNCHANGED <<servers, sessions, stdio_contexts, procs, phase>>

\* return await mcp_manager.call_tool(...)
execute_mcp_tool_return(t) ==
    /\ AtSync(t, "execute_mcp_tool", "return")
    /\ Return(t, [ret EXCEPT !.fn = "execute_mcp_tool"])
    /\ UNCHANGED <<servers, sessions, stdio_contexts, procs, phase>>

(* ------------------------------ json.loads ---------------------------- *)
\* A JSON text is the sequence of its tokens.  The texts here are objects
\* with string and number members, or are cut short.
\* the members of an object body: key ":" value ("," key ":" value)*
RECURSIVE WellFormedMembers(_)
WellFormedMembers(body) ==
    IF Len(body) < 3 THEN FALSE
    ELSE /\ body[1] \notin {"{", "}", ":", ","}
         /\ body[2] = ":"
         /\ body[3] \notin {"{", "}", ":", ","}
         /\ \/ Len(body) = 3
            \/ /\ Len(body) > 4
               /\ body[4] = ","
               /\ WellFormedMembers(SubSeq(body, 5, Len(body)))

\* json.loads raises JSONDecodeError on this text
JSONDecodeError(text) ==
    \/ Len(text) < 2
    \/ text[1] # "{"
    \/ text[Len(text)] # "}"
    \/ /\ Len(text) > 2
       /\ ~WellFormedMembers(SubSeq(text, 2, Len(text) - 1))

\* the dict json.loads returns: a later member replaces an earlier one
json_loads(text) ==
    LET body == SubSeq(text, 2, Len(text) - 1)
        n == (Len(body) + 1) \div 4
        keys == { body[4 * k - 3] : k \in 1..n }
        last(key) == CHOOSE k \in 1..n :
                        /\ body[4 * k - 3] = key
                        /\ \A m \in (k + 1)..n : body[4 * m - 3] # key
    IN [key \in keys |-> body[4 * last(key) - 1]]

(* ------------------------------- demo_tool ----------------------------- *)
\* the numbers of the JSON texts
Number(token) ==
    CASE token = "0" -> 0 [] token = "2" -> 2 [] token = "4" -> 4

\* f"{result}": the quotient of two ints is a float
FormatQuotient(a, b) == <<ToString(a \div b), ".", "0">>

\* demo_tool(**arguments) raises TypeError: no action, or an unknown keyword
DemoToolTypeError(arguments) ==
    \/ "action" \notin DOMAIN arguments
    \/ DOMAIN arguments \ {"action", "name", "operation", "a", "b", "message"} # {}

\* arguments.get(key): None is the empty string here
Arg(arguments, key) ==
    IF key \in DOMAIN arguments THEN arguments[key] ELSE ""

\* the envelope of the calculate action
Calculate(operation, a, b) ==
    LET x == Number(a)
        y == Number(b)
        done(result, symbol) ==
            [success |-> TRUE,
             data |-> [operation |-> operation, a |-> a, b |-> b,
                       result |-> result,
                       calculation |-> <<a, symbol, b, "=">> \o result],
             message |-> <<"Calculation result:", a, symbol, b, "=">> \o result]
    IN CASE operation = "add" -> done(<<ToString(x + y)>>, "+")
         [] operation = "subtract" -> done(<<ToString(x - y)>>, "-")
         [] operation = "multiply" -> done(<<ToString(x * y)>>, "*")
         [] operation = "divide" ->
              IF y = 0
              THEN [success |-> FALSE, error |-> <<"Cannot divide by zero">>]
              ELSE done(FormatQuotient(x, y), "/")
         [] OTHER -> [success |-> FALSE,
                      error |-> <<"Unknown operation:", operation>>]

\* tools.demo_tool: the text it returns is the serialization of this object
demo_tool(arguments) ==
    LET action == arguments["action"]
        name == Arg(arguments, "name")
        message == Arg(arguments, "message")
    IN CASE action = "greet" ->
              IF name = ""
              THEN [success |-> FALSE, error |-> <<"Name is required for greeting">>]
              ELSE [success |-> TRUE,
                    data |-> [greeting |-> <<"Hello,", name>>],
                    message |-> <<"Hello,", name>>]
         [] action = "calculate" ->
              IF Arg(arguments, "operation") = "" \/ Arg(arguments, "a") = ""
                 \/ Arg(arguments, "b") = ""
              THEN [success |-> FALSE,
                    error |-> <<"Operation, a, and b are required for calculation">>]
              ELSE Calculate(arguments["operation"], arguments["a"], arguments["b"])
         [] action = "system_info" ->
              [success |-> TRUE,
               data |-> [tool_name |-> <<"demo", "_", "tool">>],
               message |-> <<"System Info:">>]
         [] action = "echo" ->
              IF message = ""
              THEN [success |-> FALSE, error |-> <<"Message is required for echo">>]
              ELSE [success |-> TRUE,
                    data |-> [original_message |-> message],
                    message |-> <<"Echo:", message>>]
         [] OTHER -> [success |-> FALSE, error |-> <<"Unknown action:", action>>]

\* tools.TOOL_FUNCTIONS
TOOL_FUNCTIONS == { <<"demo", "_", "tool">> }

(* ----------------------------- get_mcp_tools --------------------------- *)
\* tools.TOOLS
TOOLS ==
    << [type |-> "function",
        function |->
          [name |-> <<"demo", "_", "tool">>,
           description |-> "A demonstration tool that can greet users, perform calculations, provide system info, or echo messages.",
           parameters |->
             [type |-> "object",
              properties |-> {"action", "name", "operation", "a", "b", "message"}]]] >>

\* the next round of "for server_name in mcp_manager.servers": the dict
\* iterator raises RuntimeError when the dict changed size, stops at the end,
\* and otherwise get_server_tools is awaited for the next key
get_mcp_tools_next(t, f) ==
    IF Len(servers) # f.n
    THEN Return(t, Result("get_mcp_tools", NoName, FALSE, <<>>, TRUE))
    ELSE IF f.i = f.n
    THEN Return(t, [Result("get_mcp_tools", NoName, TRUE, f.acc, FALSE)
                      EXCEPT !.answered = f.keys])
    ELSE Call(t, [f EXCEPT !.i = f.i + 1, !.pc = "extend"],
              Frame("get_server_tools", "start", servers[f.i + 1].k))

\* all_tools = []; the iterator is created
get_mcp_tools_start(t) ==
    /\ AtSync(t, "get_mcp_tools", "start")
    /\ get_mcp_tools_next(t, [Top(t) EXCEPT !.n = Len(servers)])
    /\ UNCHANGED <<servers, sessions, stdio_contexts, procs, phase, agentVars>>

\* all_tools.extend(tools), then the next round
get_mcp_tools_extend(t) ==
    /\ AtSync(t, "get_mcp_tools", "extend")
    /\ IF ret.exc
       THEN Return(t, Result("get_mcp_tools", NoName, FALSE, <<>>, TRUE))
       ELSE get_mcp_tools_next(t,
              [Top(t) EXCEPT !.acc = @ \o ret.tools,
                             !.keys = IF ret.ok THEN Append(@, ret.name) ELSE @])
    /\ UNCHANGED <<servers, sessions, stdio_contexts, procs, phase, agentVars>>

(* ----------------------------- get_all_tools --------------------------- *)
call_get_all_tools(t) ==
    /\ Enter(t, "get_all_tools", "start", NoName)
    /\ UNCHANGED <<servers, sessions, stdio_contexts, procs, phase, agentVars>>

\* the catalog is taken from the cache once it is set
get_all_tools_start_cached(t) ==
    /\ AtSync(t, "get_all_tools", "start")
    /\ IF mcp_tools_cache.set
       THEN Return(t, Result("get_all_tools", NoName, TRUE,
                             TOOLS \o mcp_tools_cache.tools, FALSE))
       ELSE Call(t, [Top(t) EXCEPT !.pc = "merge"],
                 Frame("get_mcp_tools", "start", NoName))
    /\ UNCHANGED <<servers, sessions, stdio_contexts, procs, phase, agentVars>>

\* all_tools = TOOLS.copy(); mcp_tools = await get_mcp_tools()
get_all_tools_start(t) ==
    /\ AtSync(t, "get_all_tools", "start")
    /\ Call(t, [Top(t) EXCEPT !.pc = "merge"], Frame("get_mcp_tools", "start", NoName))
    /\ UNCHANGED <<servers, sessions, stdio_contexts, procs, phase, agentVars>>

\* all_tools.extend(mcp_tools) and the cache is set, or the exception of
\* get_mcp_tools is caught and the local tools are returned
get_all_tools_merge(t) ==
    /\ AtSync(t, "get_all_tools", "merge")
    /\ IF ret.exc
       THEN /\ Return(t, Result("get_all_tools", NoName, TRUE, TOOLS, FALSE))
            /\ UNCHANGED mcp_tools_cache
       ELSE /\ Return(t, [Result("get_all_tools", NoName, TRUE,
                                  TOOLS \o ret.tools, FALSE)
                            EXCEPT !.answered = ret.answered])
            /\ mcp_tools_cache' = [set |-> TRUE, tools |-> ret.tools]
    /\ UNCHANGED <<servers, sessions, stdio_contexts, procs, phase, messages,
                   invocation, open_loops, MCP_SERVERS, redis>>

(* -------------------------- _execute_tool_async ------------------------ *)
\* json.dumps(obj): the text of an object
json_dumps(obj) == [json |-> obj]

\* json.dumps({"success": False, "error": error})
Failure(error) == json_dumps([success |-> FALSE, error |-> error])

\* the envelope made of the dict that execute_mcp_tool returned
Envelope(result) ==
    IF "error" \in DOMAIN result
    THEN Failure(result.error)
    ELSE json_dumps([success |-> TRUE,
                     result |-> IF "result" \in DOMAIN result
                                THEN result.result ELSE result])

\* the name is looked for a '_' before it is looked up in the local tools
DispatchRemoteFirst(tool_call) ==
    LET function_name == tool_call.function.name
        text == tool_call.function.arguments
    IN IF JSONDecodeError(text)
       THEN [remote |-> FALSE,
             text |-> Failure(<<"Tool execution failed:", "JSONDecodeError">>)]
       ELSE IF HasSep(function_name)
       THEN [remote |-> TRUE, text |-> <<>>]
       ELSE [remote |-> FALSE,
             text |-> Failure(<<"Unknown tool:">> \o function_name)]

\* the first part of _execute_tool and of _execute_tool_async: the text
\* returned without asking a provider, or remote when execute_mcp_tool is next
Dispatch(tool_call) ==
    LET function_name == tool_call.function.name
        text == tool_call.function.arguments
    IN IF JSONDecodeError(text)
       THEN [remote |-> FALSE,
             text |-> Failure(<<"Tool execution failed:", "JSONDecodeError">>)]
       ELSE IF function_name \in TOOL_FUNCTIONS
       THEN [remote |-> FALSE,
             text |-> IF DemoToolTypeError(json_loads(text))
                      THEN Failure(<<"Tool execution failed:", "TypeError">>)
                      ELSE json_dumps(demo_tool(json_loads(text)))]
       ELSE IF HasSep(function_name)
       THEN [remote |-> TRUE, text |-> <<>>]
       ELSE [remote |-> FALSE,
             text |-> Failure(<<"Unknown tool:">> \o function_name)]

\* the frame of execute_mcp_tool(function_name, arguments)
ExecuteMcpTool(tool_call) ==
    [Frame("execute_mcp_tool", "start", NoName)
       EXCEPT !.tool = tool_call.function.name,
              !.arguments = json_loads(tool_call.function.arguments)]

\* what a tool execution returns: the text, and the call and the provider's
\* dict it was made of
Executed(fn, tool_call, text, result) ==
    [Result(fn, NoName, TRUE, <<>>, FALSE)
       EXCEPT !.value = text,
              !.outcome = [call |-> tool_call, result |-> result]]

\* the exception of the callee goes on to the caller
Raise(t, fn) == Return(t, Result(fn, NoName, FALSE, <<>>, TRUE))

\* local tools and unknown names are answered at once; a name with '_' is
\* handed to execute_mcp_tool
_execute_tool_async_start(t) ==
    /\ AtSync(t, "_execute_tool_async", "start")
    /\ LET tool_call == Top(t).call IN
       IF Dispatch(tool_call).remote
       THEN Call(t, [Top(t) EXCEPT !.pc = "result"], ExecuteMcpTool(tool_call))
       ELSE Return(t, Executed("_execute_tool_async", tool_call,
                               Dispatch(tool_call).text, <<>>))
    /\ UNCHANGED <<servers, sessions, stdio_contexts, procs, phase, agentVars>>

\* the dict of execute_mcp_tool becomes the envelope
_execute_tool_async_result(t) ==
    /\ AtSync(t, "_execute_tool_async", "result")
    /\ IF ret.exc
       THEN Raise(t, "_execute_tool_async")
       ELSE Return(t, Executed("_execute_tool_async", Top(t).call,
                               Envelope(ret.value), ret.value))
    /\ UNCHANGED <<servers, sessions, stdio_contexts, procs, phase, agentVars>>

(* ------------------------- _execute_mcp_tool_sync ---------------------- *)
\* with a running loop an error dict; without, a new loop runs
\* execute_mcp_tool
_execute_mcp_tool_sync_start(t) ==
    /\ AtSync(t, "_execute_mcp_tool_sync", "start")
    /\ IF Top(t).has_loop
       THEN /\ Return(t, [Result("_execute_mcp_tool_sync", NoName, FALSE, <<>>, FALSE)
                            EXCEPT !.value =
                              [error |-> <<"Cannot execute MCP tools in async context">>]])
            /\ UNCHANGED open_loops
       ELSE /\ Call(t, [Top(t) EXCEPT !.pc = "run_until_complete"],
                    [Frame("execute_mcp_tool", "start", NoName)
                       EXCEPT !.tool = Top(t).tool,
                              !.arguments = Top(t).arguments])
            /\ open_loops' = open_loops + 1
    /\ UNCHANGED <<servers, sessions, stdio_contexts, procs, phase,
                   mcp_tools_cache, messages, invocation, MCP_SERVERS, redis>>

\* finally: set_event_loop(None); loop.close()
_execute_mcp_tool_sync_run_until_complete(t) ==
    /\ AtSync(t, "_execute_mcp_tool_sync", "run_until_complete")
    /\ open_loops' = open_loops - 1
    /\ IF ret.exc
       THEN Raise(t, "_execute_mcp_tool_sync")
       ELSE Return(t, [ret EXCEPT !.fn = "_execute_mcp_tool_sync"])
    /\ UNCHANGED <<servers, sessions, stdio_contexts, procs, phase,
                   mcp_tools_cache, messages, invocation, MCP_SERVERS, redis>>

(* ------------------------------ _execute_tool -------------------------- *)
\* local tools and unknown names are answered at once; a name with '_' is
\* executed by a worker thread when a loop is running on this thread, and
\* by a new loop otherwise
_execute_tool_start(t) ==
    /\ AtSync(t, "_execute_tool", "start")
    /\ LET tool_call == Top(t).call IN
       IF ~Dispatch(tool_call).remote
       THEN /\ Return(t, Executed("_execute_tool", tool_call,
                                  Dispatch(tool_call).text, <<>>))
            /\ UNCHANGED open_loops
       ELSE IF Top(t).has_loop
       THEN /\ Call(t, [Top(t) EXCEPT !.pc = "result"],
                    [Frame("_execute_mcp_tool_sync", "start", NoName)
                       EXCEPT !.tool = tool_call.function.name,
                              !.arguments = json_loads(tool_call.function.arguments)])
            /\ UNCHANGED open_loops
       ELSE /\ Call(t, [Top(t) EXCEPT !.pc = "run_until_complete"],
                    ExecuteMcpTool(tool_call))
            /\ open_loops' = open_loops + 1
    /\ UNCHANGED <<servers, sessions, stdio_contexts, procs, phase,
                   mcp_tools_cache, messages, invocation, MCP_SERVERS, redis>>

\* result = loop.run_until_complete(...); loop.close()
_execute_tool_run_until_complete(t) ==
    /\ AtSync(t, "_execute_tool", "run_until_complete")
    /\ IF ret.exc
       THEN /\ Raise(t, "_execute_tool")
            /\ UNCHANGED open_loops
       ELSE /\ Return(t, Executed("_execute_tool", Top(t).call,
                                  Envelope(ret.value), ret.value))
            /\ open_loops' = open_loops - 1
    /\ UNCHANGED <<servers, sessions, stdio_contexts, procs, phase,
                   mcp_tools_cache, messages, invocation, MCP_SERVERS, redis>>

\* the 10 seconds of result(timeout=10) pass while the worker is waiting
\* for the provider
_execute_tool_timeout(t) ==
    /\ running = NoTask
    /\ ret = NoResult
    /\ \E j \in 2..Len(tasks[t]) :
         /\ tasks[t][j].fn = "_execute_tool"
         /\ tasks[t][j].pc = "result"
         /\ ~tasks[t][j].timed_out
         /\ tasks' = [tasks EXCEPT ![t][j].timed_out = TRUE]
    /\ UNCHANGED <<servers, sessions, stdio_contexts, procs, running, ret, phase,
                   agentVars>>

\* the with block is left when the worker has finished: its result becomes
\* the envelope, or the TimeoutError raised meanwhile does
_execute_tool_result(t) ==
    /\ AtSync(t, "_execute_tool", "result")
    /\ IF Top(t).timed_out
       THEN Return(t, Executed("_execute_tool", Top(t).call,
                               Failure(<<"MCP tool execution failed:">>),
                               ret.value))
       ELSE IF ret.exc
       THEN Raise(t, "_execute_tool")
       ELSE Return(t, Executed("_execute_tool", Top(t).call,
                               Envelope(ret.value), ret.value))
    /\ UNCHANGED <<servers, sessions, stdio_contexts, procs, phase, agentVars>>

(* ------------------------------ _get_tools_sync ------------------------ *)
\* with a running loop the local tools; without, a new loop runs
\* get_all_tools
_get_tools_sync_start(t) ==
    /\ AtSync(t, "_get_tools_sync", "start")
    /\ IF Top(t).has_loop
       THEN /\ Return(t, Result("_get_tools_sync", NoName, TRUE, TOOLS, FALSE))
            /\ UNCHANGED open_loops
       ELSE /\ Call(t, [Top(t) EXCEPT !.pc = "run_until_complete"],
                    Frame("get_all_tools", "start", NoName))
            /\ open_loops' = open_loops + 1
    /\ UNCHANGED <<servers, sessions, stdio_contexts, procs, phase,
                   mcp_tools_cache, messages, invocation, MCP_SERVERS, redis>>

\* finally: set_event_loop(None); loop.close()
_get_tools_sync_run_until_complete(t) ==
    /\ AtSync(t, "_get_tools_sync", "run_until_complete")
    /\ open_loops' = open_loops - 1
    /\ IF ret.exc
       THEN Raise(t, "_get_tools_sync")
       ELSE Return(t, [ret EXCEPT !.fn = "_get_tools_sync"])
    /\ UNCHANGED <<servers, sessions, stdio_contexts, procs, phase,
                   mcp_tools_cache, messages, invocation, MCP_SERVERS, redis>>

(* ------------------------------ chat_async ----------------------------- *)
\* PythonAgent(enable_tools=True)
enable_tools == TRUE

UserMessages == { "hello" }

\* what the model call does: a message with or without content, or an error
ModelResponses ==
    { [kind |-> "message", content |-> "answer"],
      [kind |-> "message", content |-> ""],
      [kind |-> "raise", content |-> "timeout"] }

\* the dict sent to the model for one entry of the transcript
ApiMessage(msg) ==
    IF msg.role = "tool"
    THEN [role |-> msg.role, content |-> msg.content,
          tool_call_id |-> msg.tool_call_id]
    ELSE IF msg.role = "assistant" /\ msg.tool_calls # <<>>
    THEN [role |-> msg.role, content |-> msg.content,
          tool_calls |-> msg.tool_calls]
    ELSE [role |-> msg.role, content |-> msg.content]

ApiMessages(msgs) == [i \in 1..Len(msgs) |-> ApiMessage(msgs[i])]

Continuation == "Please provide a response based on the tool results."

\* the user turns of the transcript
Turns ==
    Cardinality({ i \in 1..Len(messages) :
                    /\ messages[i].role = "user"
                    /\ messages[i].content # Continuation })

\* the rounds of tool calls of the transcript
Rounds ==
    Cardinality({ i \in 1..Len(messages) :
                    /\ messages[i].role = "assistant"
                    /\ messages[i].tool_calls # <<>> })

\* the user message is appended, api_messages is built and get_all_tools is
\* awaited (without tools the model is called at once)
chat_async_start(t, user_message) ==
    /\ phase = "up"
    /\ running = NoTask
    /\ ret = NoResult
    /\ Idle(t)
    /\ Turns < MaxTurns
    /\ messages' = Append(messages, Message("user", user_message))
    /\ IF enable_tools
       THEN /\ tasks' = [tasks EXCEPT ![t] =
                          << Frame("get_all_tools", "start", NoName),
                             [Frame("chat_async", "tools", NoName)
                                EXCEPT !.api = ApiMessages(messages') ] >>]
            /\ UNCHANGED invocation
       ELSE /\ tasks' = [tasks EXCEPT ![t] =
                          << Frame("chat_async", "model", NoName) >>]
            /\ invocation' = [fn |-> "chat_async",
                              messages |-> ApiMessages(messages'),
                              tools |-> <<>>, answered |-> <<>>]
    /\ running' = t
    /\ ret' = NoResult
    /\ UNCHANGED <<servers, sessions, stdio_contexts, procs, phase,
                   mcp_tools_cache, open_loops, MCP_SERVERS, redis>>

\* kwargs["tools"] = all_tools and client.chat.completions.create(**kwargs),
\* which blocks the thread
chat_async_tools(t) ==
    /\ AtSync(t, "chat_async", "tools")
    /\ invocation' = [fn |-> "chat_async", messages |-> Top(t).api,
                      tools |-> ret.tools, answered |-> ret.answered]
    /\ tasks' = [tasks EXCEPT ![t] = <<[Top(t) EXCEPT !.pc = "model"]>> \o Tail(@)]
    /\ running' = t
    /\ ret' = NoResult
    /\ UNCHANGED <<servers, sessions, stdio_contexts, procs, phase,
                   mcp_tools_cache, messages, open_loops, MCP_SERVERS, redis>>

\* the model call returns a message, which is recorded and returned, or
\* raises, which records and returns an error message
\* the model call outside the try block: its exception reaches the caller
model_responds_uncaught(t, fn) ==
    /\ AtSync(t, fn, "model")
    /\ \E r \in ModelResponses :
         IF r.kind = "raise"
         THEN /\ Raise(t, fn)
              /\ UNCHANGED messages
         ELSE /\ messages' = Append(messages,
                    Message("assistant",
                            IF r.content = ""
                            THEN "Sorry, I could not generate a response."
                            ELSE r.content))
              /\ Return(t, [Result(fn, NoName, TRUE, <<>>, FALSE)
                              EXCEPT !.value = messages'[Len(messages')]])
    /\ invocation' = NoInvocation
    /\ UNCHANGED <<servers, sessions, stdio_contexts, procs, phase,
                   mcp_tools_cache, open_loops, MCP_SERVERS, redis>>

model_responds(t, fn) ==
    /\ AtSync(t, fn, "model")
    /\ \E r \in ModelResponses :
         /\ messages' = Append(messages,
               Message("assistant",
                       IF r.kind = "raise" THEN "error: " \o r.content
                       ELSE IF r.content = ""
                       THEN "Sorry, I could not generate a response."
                       ELSE r.content))
         /\ Return(t, [Result(fn, NoName, r.kind # "raise", <<>>, FALSE)
                         EXCEPT !.value = messages'[Len(messages')]])
    /\ invocation' = NoInvocation
    /\ UNCHANGED <<servers, sessions, stdio_contexts, procs, phase,
                   mcp_tools_cache, open_loops, MCP_SERVERS, redis>>

chat_async_model(t) == model_responds(t, "chat_async")

\* a tool-call request of the model
ToolCall(id, type, name, arguments) ==
    [id |-> id, type |-> type,
     function |-> [name |-> name, arguments |-> arguments]]

ArgsNone == <<"{", "}">>
ArgsEcho == <<"{", "action", ":", "echo", ",", "message", ":", "hi", "}">>
ArgsCut == <<"{", "action", ":", "echo">>

\* the lists of tool calls a model response can carry
ToolCallLists ==
    { << ToolCall("c1", "function", <<"demo", "_", "tool">>, ArgsEcho),
         ToolCall("c2", "function", <<"alpha", "_", "echo">>, ArgsNone) >>,
      << ToolCall("c1", "function", <<"beta", "_", "doit">>, ArgsNone) >>,
      << ToolCall("c1", "custom", <<"alpha", "_", "echo">>, ArgsNone),
         ToolCall("c2", "function", <<"demo", "_", "tool">>, ArgsCut) >> }

\* ChatMessage("assistant", message.content or "", tool_calls=[...])
ToolCallsMessage(tool_calls) ==
    [Message("assistant", "") EXCEPT !.tool_calls = tool_calls]

\* ChatMessage("tool", tool_result, tool_call_id=tool_call.id)
ToolMessage(tool_result, tool_call) ==
    [Message("tool", tool_result) EXCEPT !.tool_call_id = tool_call.id]

\* the next round of "for tool_call in message.tool_calls": the index of the
\* next call of type function after i, or past the end
NextFunction(tool_calls, i) ==
    IF \E j \in (i + 1)..Len(tool_calls) : tool_calls[j].type = "function"
    THEN CHOOSE j \in (i + 1)..Len(tool_calls) :
            /\ tool_calls[j].type = "function"
            /\ \A m \in (i + 1)..(j - 1) : tool_calls[m].type # "function"
    ELSE Len(tool_calls) + 1

\* the loop is re-entered without a continuation message
chat_async_tools_next_silent(t, f, msgs) ==
    LET j == NextFunction(f.acc, f.i) IN
    IF j <= Len(f.acc)
    THEN /\ messages' = msgs
         /\ Call(t, [f EXCEPT !.i = j, !.pc = "tool_result"],
                 [Frame("_execute_tool_async", "start", NoName)
                    EXCEPT !.call = f.acc[j]])
    ELSE /\ messages' = msgs
         /\ tasks' = [tasks EXCEPT ![t] =
                        << Frame("get_all_tools", "start", NoName),
                           [Frame("chat_async", "tools", NoName)
                              EXCEPT !.api = ApiMessages(messages')],
                           [f EXCEPT !.pc = "return"] >> \o Tail(@)]
         /\ running' = t
         /\ ret' = NoResult

\* the tool calls of frame f from index f.i on: the next one is executed, or
\* after the last chat_async is awaited again for the final response
chat_async_tools_next(t, f, msgs) ==
    LET j == NextFunction(f.acc, f.i) IN
    IF j <= Len(f.acc)
    THEN /\ messages' = msgs
         /\ Call(t, [f EXCEPT !.i = j, !.pc = "tool_result"],
                 [Frame("_execute_tool_async", "start", NoName)
                    EXCEPT !.call = f.acc[j]])
    ELSE /\ messages' = Append(msgs, Message("user", Continuation))
         /\ tasks' = [tasks EXCEPT ![t] =
                        << Frame("get_all_tools", "start", NoName),
                           [Frame("chat_async", "tools", NoName)
                              EXCEPT !.api = ApiMessages(messages')],
                           [f EXCEPT !.pc = "return"] >> \o Tail(@)]
         /\ running' = t
         /\ ret' = NoResult

\* the response of the model carries tool calls: they are recorded in an
\* assistant message and executed one after the other
chat_async_tool_calls(t) ==
    /\ AtSync(t, "chat_async", "model")
    /\ Rounds < MaxRounds
    /\ \E tool_calls \in ToolCallLists :
         chat_async_tools_next(t, [Top(t) EXCEPT !.acc = tool_calls, !.i = 0],
                               Append(messages, ToolCallsMessage(tool_calls)))
    /\ invocation' = NoInvocation
    /\ UNCHANGED <<servers, sessions, stdio_contexts, procs, phase,
                   mcp_tools_cache, open_loops, MCP_SERVERS, redis>>

\* the result of a tool is appended as a tool message
chat_async_tool_result(t) ==
    /\ AtSync(t, "chat_async", "tool_result")
    /\ IF ret.exc
       THEN Raise(t, "chat_async") /\ UNCHANGED messages
       ELSE chat_async_tools_next(t, Top(t),
              Append(messages, ToolMessage(ret.value, Top(t).acc[Top(t).i])))
    /\ UNCHANGED <<servers, sessions, stdio_contexts, procs, phase,
                   mcp_tools_cache, invocation, open_loops, MCP_SERVERS, redis>>

\* the message with the tool-call requests is returned instead of the final
\* response
chat_async_return_requests(t) ==
    /\ AtSync(t, "chat_async", "return")
    /\ Return(t, [ret EXCEPT !.value =
                    messages[CHOOSE i \in 1..Len(messages) :
                               /\ messages[i].tool_calls # <<>>
                               /\ \A j \in (i + 1)..Len(messages) :
                                    messages[j].tool_calls = <<>>]])
    /\ UNCHANGED <<servers, sessions, stdio_contexts, procs, phase, agentVars>>

\* return await self.chat_async(...)
chat_async_return(t) ==
    /\ AtSync(t, "chat_async", "return")
    /\ Return(t, ret)
    /\ UNCHANGED <<servers, sessions, stdio_contexts, procs, phase, agentVars>>

(* --------------------------------- chat -------------------------------- *)
\* the synchronous chat: the user message is appended and the model is
\* called with kwargs["tools"] = TOOLS
chat_start(t, user_message) ==
    /\ phase = "up"
    /\ running = NoTask
    /\ ret = NoResult
    /\ Idle(t)
    /\ Turns < MaxTurns
    /\ messages' = Append(messages, Message("user", user_message))
    /\ tasks' = [tasks EXCEPT ![t] = << Frame("chat", "model", NoName) >>]
    /\ invocation' = [fn |-> "chat", messages |-> ApiMessages(messages'),
                      tools |-> IF enable_tools THEN TOOLS ELSE <<>>,
                      answered |-> <<>>]
    /\ running' = t
    /\ ret' = NoResult
    /\ UNCHANGED <<servers, sessions, stdio_contexts, procs, phase,
                   mcp_tools_cache, open_loops, MCP_SERVERS, redis>>

chat_model(t) == model_responds(t, "chat")

\* the tool calls of frame f from index f.i on: the next one is executed, or
\* after the last chat is called again for the final response
chat_tools_next(t, f, msgs) ==
    LET j == NextFunction(f.acc, f.i) IN
    IF j <= Len(f.acc)
    THEN /\ messages' = msgs
         /\ invocation' = NoInvocation
         /\ Call(t, [f EXCEPT !.i = j, !.pc = "tool_result"],
                 [Frame("_execute_tool", "start", NoName)
                    EXCEPT !.call = f.acc[j], !.has_loop = f.has_loop])
    ELSE /\ messages' = Append(msgs, Message("user", Continuation))
         /\ invocation' = [fn |-> "chat", messages |-> ApiMessages(messages'),
                           tools |-> IF enable_tools THEN TOOLS ELSE <<>>,
                           answered |-> <<>>]
         /\ tasks' = [tasks EXCEPT ![t] =
                        << Frame("chat", "model", NoName),
                           [f EXCEPT !.pc = "return"] >> \o Tail(@)]
         /\ running' = t
         /\ ret' = NoResult

\* a round limit in the loop: tool calls are refused one round before the
\* rounds the model asks for are over
chat_tool_calls_limited(t) ==
    /\ AtSync(t, "chat", "model")
    /\ Rounds + 1 < MaxRounds
    /\ \E tool_calls \in ToolCallLists :
         chat_tools_next(t, [Top(t) EXCEPT !.acc = tool_calls, !.i = 0],
                         Append(messages, ToolCallsMessage(tool_calls)))
    /\ UNCHANGED <<servers, sessions, stdio_contexts, procs, phase,
                   mcp_tools_cache, open_loops, MCP_SERVERS, redis>>

\* the response of the model carries tool calls: they are recorded in an
\* assistant message and executed one after the other
chat_tool_calls(t) ==
    /\ AtSync(t, "chat", "model")
    /\ Rounds < MaxRounds
    /\ \E tool_calls \in ToolCallLists :
         chat_tools_next(t, [Top(t) EXCEPT !.acc = tool_calls, !.i = 0],
                         Append(messages, ToolCallsMessage(tool_calls)))
    /\ UNCHANGED <<servers, sessions, stdio_contexts, procs, phase,
                   mcp_tools_cache, open_loops, MCP_SERVERS, redis>>

\* the result of a tool is appended as a tool message
chat_tool_result(t) ==
    /\ AtSync(t, "chat", "tool_result")
    /\ IF ret.exc
       THEN Raise(t, "chat") /\ UNCHANGED <<messages, invocation, MCP_SERVERS, redis>>
       ELSE chat_tools_next(t, Top(t),
              Append(messages, ToolMessage(ret.value, Top(t).acc[Top(t).i])))
    /\ UNCHANGED <<servers, sessions, stdio_contexts, procs, phase,
                   mcp_tools_cache, open_loops, MCP_SERVERS, redis>>

\* the outer call keeps waiting for the final response instead of returning it
chat_return_waits(t) ==
    /\ AtSync(t, "chat", "return")
    /\ Suspend(t, Top(t))
    /\ UNCHANGED <<servers, sessions, stdio_contexts, procs, phase, agentVars>>

\* return self.chat(...)
chat_return(t) ==
    /\ AtSync(t, "chat", "return")
    /\ Return(t, ret)
    /\ UNCHANGED <<servers, sessions, stdio_contexts, procs, phase, agentVars>>

(* ------------------------- calls of the bridge ------------------------- *)
\* the tool calls handed to the bridge
ToolCalls ==
    { ToolCall("c1", "function", <<"demo", "_", "tool">>, ArgsEcho),
      ToolCall("c1", "function", <<"demo", "_", "tool">>, ArgsNone),
      ToolCall("c1", "function", <<"demo", "_", "tool">>, ArgsCut),
      ToolCall("c1", "function", <<"demo", "_", "echo">>, ArgsNone),
      ToolCall("c1", "function", <<"alpha", "_", "x", "_", "ping">>, ArgsNone),
      ToolCall("c1", "function", <<"beta", "_", "doit">>, ArgsNone),
      ToolCall("c1", "function", <<"nosuch">>, ArgsNone) }

\* a function is called on an idle thread; has_loop tells whether an event
\* loop is running on that thread
EnterBridge(t, f) ==
    /\ phase = "up"
    /\ running = NoTask
    /\ ret = NoResult
    /\ Idle(t)
    /\ tasks' = [tasks EXCEPT ![t] = <<f>>]
    /\ running' = t
    /\ ret' = NoResult
    /\ UNCHANGED <<servers, sessions, stdio_contexts, procs, phase, agentVars>>

call_execute_tool(t, tool_call, has_loop) ==
    EnterBridge(t, [Frame("_execute_tool", "start", NoName)
                      EXCEPT !.call = tool_call, !.has_loop = has_loop])

call_execute_tool_async(t, tool_call) ==
    EnterBridge(t, [Frame("_execute_tool_async", "start", NoName)
                      EXCEPT !.call = tool_call, !.has_loop = TRUE])

call_execute_mcp_tool_sync(t, function_name, arguments, has_loop) ==
    EnterBridge(t, [Frame("_execute_mcp_tool_sync", "start", NoName)
                      EXCEPT !.tool = function_name, !.arguments = arguments,
                             !.has_loop = has_loop])

call_get_tools_sync(t, has_loop) ==
    EnterBridge(t, [Frame("_get_tools_sync", "start", NoName)
                      EXCEPT !.has_loop = has_loop])

\* KeyboardInterrupt reaches the thread that waits in
\* loop.run_until_complete: the coroutine is abandoned and the exception is
\* raised in the function that created the loop
run_until_complete_interrupted(t) ==
    /\ running = NoTask
    /\ ret = NoResult
    /\ Len(tasks[t]) >= 2
    /\ tasks[t][Len(tasks[t])].pc = "run_until_complete"
    /\ open_loops <= MaxLoops
    /\ tasks' = [tasks EXCEPT ![t] = << tasks[t][Len(tasks[t])] >>]
    /\ running' = t
    /\ ret' = Result("run_until_complete", NoName, FALSE, <<>>, TRUE)
    /\ UNCHANGED <<servers, sessions, stdio_contexts, procs, phase, agentVars>>

(* ---------------------------- specifications --------------------------- *)
\* the request handler takes the value its call returned
respond ==
    /\ running = NoTask
    /\ ret # NoResult
    /\ ret' = NoResult
    /\ UNCHANGED <<servers, sessions, stdio_contexts, procs, tasks, running, phase,
                   agentVars>>

SupervisorSteps(t) ==
    /\ \/ connect_server_start(t)
       \/ connect_server_spawn(t)
       \/ connect_server_spawn_fails(t)
       \/ connect_server_initialize(t)
       \/ connect_server_initialize_fails(t)
       \/ disconnect_server_start(t)
       \/ disconnect_server_session_exit(t)
       \/ disconnect_server_session_exit_raises(t)
       \/ disconnect_server_stdio_exit(t)
       \/ disconnect_server_stdio_exit_raises(t)
       \/ disconnect_all_loop(t)
       \/ get_server_tools_start(t)
       \/ get_server_tools_connected(t)
       \/ get_server_tools_list(t)
       \/ get_server_tools_list_raises(t)
       \/ call_tool_start(t)
       \/ call_tool_connected(t)
       \/ call_tool_call(t)
       \/ call_tool_call_raises(t)
    /\ UNCHANGED agentVars

SupervisorCalls(t) ==
    /\ \/ \E name \in ServerNames, path \in Paths : Idle(t) /\ add_server(name, path)
       \/ \E name \in ServerNames : call_connect_server(t, name)
       \/ \E name \in ServerNames : call_disconnect_server(t, name)
       \/ \E name \in ServerNames : call_get_server_tools(t, name)
       \/ \E name \in ServerNames, tool \in {<<"ping">>, <<"echo">>} :
            call_call_tool(t, name, tool)
       \/ cleanup_mcp(t)
    /\ UNCHANGED agentVars

\* one request at a time
Next == SupervisorCalls(1) \/ SupervisorSteps(1) \/ respond

Spec == Init /\ [][Next]_vars

\* lazily connecting requests interleave at their awaits
ConnectSteps(t) ==
    /\ \/ connect_server_start(t)
       \/ connect_server_spawn(t)
       \/ connect_server_spawn_fails(t)
       \/ connect_server_initialize(t)
       \/ connect_server_initialize_fails(t)
       \/ get_server_tools_start(t)
       \/ get_server_tools_connected(t)
       \/ get_server_tools_list(t)
       \/ get_server_tools_list_raises(t)
       \/ call_tool_start(t)
       \/ call_tool_connected(t)
       \/ call_tool_call(t)
       \/ call_tool_call_raises(t)
    /\ UNCHANGED agentVars

ConnectCalls(t) ==
    /\ \/ \E path \in Paths : add_server(<<"alpha">>, path)
       \/ call_connect_server(t, <<"alpha">>)
       \/ call_get_server_tools(t, <<"alpha">>)
       \/ call_call_tool(t, <<"alpha">>, <<"ping">>)
    /\ UNCHANGED agentVars

NextConcurrent ==
    \/ \E t \in Tasks : ConnectCalls(t) \/ ConnectSteps(t)
    \/ respond

SpecConcurrent == Init /\ [][NextConcurrent]_vars

\* catalog computations of the agent, one request at a time; servers are
\* registered by setup_mcp_server and torn down without errors
CatalogSteps(t) ==
    \/ /\ \/ connect_server_start(t)
          \/ connect_server_spawn(t)
          \/ connect_server_spawn_fails(t)
          \/ connect_server_initialize(t)
          \/ connect_server_initialize_fails(t)
          \/ disconnect_server_start(t)
          \/ disconnect_server_session_exit(t)
          \/ disconnect_server_stdio_exit(t)
          \/ get_server_tools_start(t)
          \/ get_server_tools_connected(t)
          \/ get_server_tools_list(t)
          \/ get_server_tools_list_raises(t)
       /\ UNCHANGED agentVars
    \/ get_mcp_tools_start(t)
    \/ get_mcp_tools_extend(t)
    \/ get_all_tools_start(t)
    \/ get_all_tools_merge(t)

CatalogCalls(t) ==
    \/ /\ \/ \E name \in ServerNames, path \in Paths :
                Idle(t) /\ setup_mcp_server(name, path)
          \/ \E name \in ServerNames : call_disconnect_server(t, name)
       /\ UNCHANGED agentVars
    \/ call_get_all_tools(t)

NextCatalog ==
    \/ CatalogCalls(1)
    \/ CatalogSteps(1)
    \/ respond

SpecCatalog == Init /\ [][NextCatalog]_vars

\* conversations with the agent, one request at a time, while servers are
\* registered, connected (when they have no session) and disconnected
\* between the turns
ChatSteps(t) ==
    \/ CatalogSteps(t)
    \/ chat_async_tools(t)
    \/ chat_async_model(t)
    \/ chat_model(t)

ChatCalls(t) ==
    \/ /\ \/ \E name \in ServerNames, path \in Paths :
                Idle(t) /\ setup_mcp_server(name, path)
          \/ \E name \in ServerNames :
                ~DictHas(sessions, name) /\ call_connect_server(t, name)
          \/ \E name \in ServerNames : call_disconnect_server(t, name)
       /\ UNCHANGED agentVars
    \/ \E user_message \in UserMessages : chat_async_start(t, user_message)
    \/ \E user_message \in UserMessages : chat_start(t, user_message)

NextChat ==
    \/ ChatCalls(1)
    \/ ChatSteps(1)
    \/ respond

SpecChat == Init /\ [][NextChat]_vars

\* what a lazily connecting tool call or list request goes through
LazySteps(t) ==
    /\ \/ connect_server_start(t)
       \/ connect_server_spawn(t)
       \/ connect_server_spawn_fails(t)
       \/ connect_server_initialize(t)
       \/ connect_server_initialize_fails(t)
       \/ call_tool_start(t)
       \/ call_tool_connected(t)
       \/ call_tool_call(t)
       \/ call_tool_call_raises(t)
       \/ execute_mcp_tool_start(t)
       \/ execute_mcp_tool_return(t)
    /\ UNCHANGED agentVars

ListSteps(t) ==
    \/ /\ \/ get_server_tools_start(t)
          \/ get_server_tools_connected(t)
          \/ get_server_tools_list(t)
          \/ get_server_tools_list_raises(t)
       /\ UNCHANGED agentVars
    \/ get_mcp_tools_start(t)
    \/ get_mcp_tools_extend(t)
    \/ get_all_tools_start(t)
    \/ get_all_tools_merge(t)

\* the functions of the bridge called one at a time, on a thread with or
\* without a running loop, while servers are registered
BridgeSteps(t) ==
    \/ LazySteps(t)
    \/ ListSteps(t)
    \/ _execute_tool_async_start(t)
    \/ _execute_tool_async_result(t)
    \/ _execute_mcp_tool_sync_start(t)
    \/ _execute_mcp_tool_sync_run_until_complete(t)
    \/ _execute_tool_start(t)
    \/ _execute_tool_run_until_complete(t)
    \/ _execute_tool_timeout(t)
    \/ _execute_tool_result(t)
    \/ _get_tools_sync_start(t)
    \/ _get_tools_sync_run_until_complete(t)
    \/ run_until_complete_interrupted(t)

BridgeCalls(t) ==
    \/ /\ \E name \in BridgeNames, path \in Paths :
            Idle(t) /\ setup_mcp_server(name, path)
       /\ UNCHANGED agentVars
    \/ \E tool_call \in ToolCalls, has_loop \in BOOLEAN :
          call_execute_tool(t, tool_call, has_loop)
    \/ \E tool_call \in ToolCalls : call_execute_tool_async(t, tool_call)
    \/ \E has_loop \in BOOLEAN :
          call_execute_mcp_tool_sync(t, <<"demo", "_", "echo">>, <<>>, has_loop)
    \/ \E has_loop \in BOOLEAN : call_get_tools_sync(t, has_loop)

NextBridge ==
    \/ BridgeCalls(1)
    \/ BridgeSteps(1)
    \/ respond

SpecBridge == Init /\ [][NextBridge]_vars

\* conversations in which the model requests tools; the server is registered
\* before the conversation starts (initialize_mcp_servers) and connects lazily
DispatchSteps(t) ==
    \/ LazySteps(t)
    \/ ListSteps(t)
    \/ _execute_tool_async_start(t)
    \/ _execute_tool_async_result(t)
    \/ _execute_tool_start(t)
    \/ _execute_tool_run_until_complete(t)
    \/ chat_async_tools(t)
    \/ chat_async_model(t)
    \/ chat_async_tool_calls(t)
    \/ chat_async_tool_result(t)
    \/ chat_async_return(t)
    \/ chat_model(t)
    \/ chat_tool_calls(t)
    \/ chat_tool_result(t)
    \/ chat_return(t)

DispatchCalls(t) ==
    \/ /\ \E path \in Paths :
            Idle(t) /\ Len(messages) = 1 /\ setup_mcp_server(<<"alpha">>, path)
       /\ UNCHANGED agentVars
    \/ \E user_message \in UserMessages : chat_async_start(t, user_message)
    \/ \E user_message \in UserMessages : chat_start(t, user_message)

NextDispatch ==
    \/ DispatchCalls(1)
    \/ DispatchSteps(1)
    \/ respond

SpecDispatch == Init /\ [][NextDispatch]_vars

\* the event loop runs every coroutine that can continue, the model answers
\* every invocation and the providers answer every request
LiveDispatch == SpecDispatch /\ WF_vars(DispatchSteps(1))

(* ---------------------- enabling and disabling (server.py) ------------- *)
\* initialize_mcp_servers: a server is set up when it is enabled in
\* MCP_SERVERS and its path exists
initialize_mcp_servers(name, path) ==
    /\ MCP_SERVERS[name].enabled
    /\ setup_mcp_server(name, path)
    /\ UNCHANGED agentVars

\* POST /mcp/enable/{server_name}: MCP_SERVERS[server_name]["enabled"] = True
enable_mcp_server(name) ==
    /\ phase = "up"
    /\ running = NoTask
    /\ ret = NoResult
    /\ MCP_SERVERS' = [MCP_SERVERS EXCEPT ![name].enabled = TRUE]
    /\ UNCHANGED <<servers, sessions, stdio_contexts, procs, tasks, running, ret,
                   phase, mcp_tools_cache, messages, invocation, open_loops, redis>>

call_disable_mcp_server(t, name) ==
    /\ Enter(t, "disable_mcp_server", "start", name)
    /\ UNCHANGED <<servers, sessions, stdio_contexts, procs, phase, agentVars>>

\* POST /mcp/disable/{server_name}: the flag is cleared and a registered
\* server is disconnected
disable_mcp_server_start(t) ==
    /\ AtSync(t, "disable_mcp_server", "start")
    /\ MCP_SERVERS' = [MCP_SERVERS EXCEPT ![Top(t).name].enabled = FALSE]
    /\ IF DictHas(servers, Top(t).name)
       THEN Call(t, [Top(t) EXCEPT !.pc = "return"],
                 Frame("disconnect_server", "start", Top(t).name))
       ELSE Return(t, Result("disable_mcp_server", Top(t).name, TRUE, <<>>, FALSE))
    /\ UNCHANGED <<servers, sessions, stdio_contexts, procs, phase,
                   mcp_tools_cache, messages, invocation, open_loops, redis>>

\* the answer, or the HTTPException made of what disconnect_server raised
disable_mcp_server_return(t) ==
    /\ AtSync(t, "disable_mcp_server", "return")
    /\ Return(t, Result("disable_mcp_server", Top(t).name, ~ret.exc, <<>>, ret.exc))
    /\ UNCHANGED <<servers, sessions, stdio_contexts, procs, phase, agentVars>>

call_get_mcp_tools(t) ==
    /\ Enter(t, "get_mcp_tools", "start", NoName)
    /\ UNCHANGED <<servers, sessions, stdio_contexts, procs, phase, agentVars>>

call_execute_mcp_tool(t, function_name) ==
    EnterBridge(t, [Frame("execute_mcp_tool", "start", NoName)
                      EXCEPT !.tool = function_name])

\* what the requests of a running server go through
RuntimeSteps(t) ==
    \/ LazySteps(t)
    \/ /\ \/ disconnect_server_start(t)
          \/ disconnect_server_session_exit(t)
          \/ disconnect_server_session_exit_raises(t)
          \/ disconnect_server_stdio_exit(t)
          \/ disconnect_server_stdio_exit_raises(t)
          \/ get_server_tools_start(t)
          \/ get_server_tools_connected(t)
          \/ get_server_tools_list(t)
          \/ get_server_tools_list_raises(t)
       /\ UNCHANGED agentVars
    \/ get_mcp_tools_start(t)
    \/ get_mcp_tools_extend(t)
    \/ disable_mcp_server_start(t)
    \/ disable_mcp_server_return(t)

\* server alpha is set up at startup, then it is disabled and enabled while
\* catalogs are computed and its tool is called
RuntimeCalls(t) ==
    \/ \E path \in Paths : Idle(t) /\ initialize_mcp_servers(<<"alpha">>, path)
    \/ enable_mcp_server(<<"alpha">>)
    \/ call_disable_mcp_server(t, <<"alpha">>)
    \/ call_get_mcp_tools(t)
    \/ call_execute_mcp_tool(t, <<"alpha", "_", "echo">>)

NextRuntime ==
    \/ RuntimeCalls(1)
    \/ RuntimeSteps(1)
    \/ respond

SpecRuntime == Init /\ [][NextRuntime]_vars

(* ------------------- POST /mcp/connect/{server_name} ------------------- *)
\* the path MCP_SERVERS has for a server
ConfigPath == "mcp_server.py"

\* is_server_configured(server_name) and get_enabled_servers().get(server_name)
is_server_configured(name) ==
    /\ MCP_SERVERS[name].enabled
    /\ PathExists(ConfigPath)

call_connect_mcp_server(t, name) ==
    /\ Enter(t, "connect_mcp_server", "start", name)
    /\ UNCHANGED <<servers, sessions, stdio_contexts, procs, phase, agentVars>>

\* a server that is not configured is refused; one that is not registered
\* is set up; then connect_server is awaited
connect_mcp_server_start(t) ==
    /\ AtSync(t, "connect_mcp_server", "start")
    /\ LET name == Top(t).name IN
       IF ~is_server_configured(name)
       THEN /\ Raise(t, "connect_mcp_server")
            /\ UNCHANGED servers
       ELSE /\ Call(t, [Top(t) EXCEPT !.pc = "connected"],
                    Frame("connect_server", "start", name))
            /\ servers' = IF DictHas(servers, name) THEN servers
                          ELSE DictPut(servers, name,
                                       [path |-> ConfigPath, connected |-> FALSE])
    /\ UNCHANGED <<sessions, stdio_contexts, procs, phase, agentVars>>

\* connected: get_server_tools is awaited; otherwise an HTTPException
connect_mcp_server_connected(t) ==
    /\ AtSync(t, "connect_mcp_server", "connected")
    /\ IF ret.ok /\ ~ret.exc
       THEN Call(t, [Top(t) EXCEPT !.pc = "return"],
                 Frame("get_server_tools", "start", Top(t).name))
       ELSE Raise(t, "connect_mcp_server")
    /\ UNCHANGED <<servers, sessions, stdio_contexts, procs, phase, agentVars>>

\* the names of the tools are answered
connect_mcp_server_return(t) ==
    /\ AtSync(t, "connect_mcp_server", "return")
    /\ Return(t, Result("connect_mcp_server", Top(t).name, TRUE, ret.tools, FALSE))
    /\ UNCHANGED <<servers, sessions, stdio_contexts, procs, phase, agentVars>>

\* a catalog is computed for a chat while servers are connected on request
SnapshotSteps(t) ==
    \/ /\ \/ connect_server_start(t)
          \/ connect_server_spawn(t)
          \/ connect_server_spawn_fails(t)
          \/ connect_server_initialize(t)
          \/ connect_server_initialize_fails(t)
       /\ UNCHANGED agentVars
    \/ ListSteps(t)
    \/ connect_mcp_server_start(t)
    \/ connect_mcp_server_connected(t)
    \/ connect_mcp_server_return(t)

\* the catalog is computed by task 1; task 2 connects the servers that are
\* not registered yet
SnapshotCalls ==
    \/ call_get_all_tools(1)
    \/ \E name \in ServerNames :
         ~DictHas(servers, name) /\ call_connect_mcp_server(2, name)

NextSnapshot ==
    \/ SnapshotCalls
    \/ \E t \in {1, 2} : SnapshotSteps(t)
    \/ respond

SpecSnapshot == Init /\ [][NextSnapshot]_vars

(* ------------------------- POST /chat (server.py) ---------------------- *)
\* ChatMessage.to_dict(): the optional members are present when truthy (the
\* id and the timestamp of a message are not part of the model)
to_dict(msg) ==
    IF msg.tool_calls # <<>>
    THEN [role |-> msg.role, content |-> msg.content, tool_calls |-> msg.tool_calls]
    ELSE IF msg.tool_call_id # ""
    THEN [role |-> msg.role, content |-> msg.content,
          tool_call_id |-> msg.tool_call_id]
    ELSE [role |-> msg.role, content |-> msg.content]

\* [msg.to_dict() for msg in self.messages if msg.role != "system"]
get_messages(msgs) ==
    LET idx == { i \in 1..Len(msgs) : msgs[i].role # "system" }
        nth(k) == CHOOSE i \in idx : Cardinality({ j \in idx : j <= i }) = k
    IN [k \in 1..Cardinality(idx) |-> to_dict(msgs[nth(k)])]

\* the history is emptied, the system message included
clear_history_all(msgs) == SubSeq(msgs, 1, 0)

\* [msg for msg in self.messages if msg.role == "system"]
clear_history(msgs) ==
    LET idx == { i \in 1..Len(msgs) : msgs[i].role = "system" }
        nth(k) == CHOOSE i \in idx : Cardinality({ j \in idx : j <= i }) = k
    IN [k \in 1..Cardinality(idx) |-> msgs[nth(k)]]

\* the client whose requests task t serves, and what that client says
ClientOf(t) == IF t = 1 THEN "a" ELSE "b"
ClientMessage(client) == IF client = "a" THEN "hello" ELSE "bye"

\* the bodies of the requests of a client
ChatRequests(client) ==
    { [message |-> ClientMessage(client), action |-> ""],
      [message |-> "", action |-> "clear"],
      [message |-> "", action |-> ""] }

\* the handler up to its await: the one agent of the process is taken; the
\* history is cleared, or the request is refused, or chat_async is awaited
server_chat_start(t, request) ==
    /\ phase = "up"
    /\ running = NoTask
    /\ ret = NoResult
    /\ Idle(t)
    /\ IF request.action = "clear"
       THEN /\ messages' = clear_history(messages)
            /\ ret' = [Result("server.chat", <<ClientOf(t)>>, TRUE, <<>>, FALSE)
                         EXCEPT !.value = [success |-> TRUE,
                                           message |-> "Chat history cleared"]]
            /\ UNCHANGED <<tasks, running>>
       ELSE IF request.message = ""
       THEN /\ ret' = Result("server.chat", <<ClientOf(t)>>, FALSE, <<>>, TRUE)
            /\ UNCHANGED <<messages, tasks, running>>
       ELSE /\ Turns < MaxTurns
            /\ messages' = Append(messages, Message("user", request.message))
            /\ tasks' = [tasks EXCEPT ![t] =
                           << Frame("get_all_tools", "start", NoName),
                              [Frame("chat_async", "tools", NoName)
                                 EXCEPT !.api = ApiMessages(messages')],
                              Frame("server.chat", "history", <<ClientOf(t)>>) >>]
            /\ running' = t
            /\ ret' = NoResult
    /\ UNCHANGED <<servers, sessions, stdio_contexts, procs, phase,
                   mcp_tools_cache, invocation, open_loops, MCP_SERVERS, redis>>

\* history = agent_instance.get_messages(); the response and the history
\* are answered
server_chat_return(t) ==
    /\ AtSync(t, "server.chat", "history")
    /\ IF ret.exc
       THEN Raise(t, "server.chat")
       ELSE Return(t, [Result("server.chat", Top(t).name, TRUE, <<>>, FALSE)
                         EXCEPT !.value = [response |-> to_dict(ret.value),
                                           history |-> get_messages(messages)]])
    /\ UNCHANGED <<servers, sessions, stdio_contexts, procs, phase, agentVars>>

ClientSteps(t) ==
    \/ get_all_tools_start(t)
    \/ get_mcp_tools_start(t)
    \/ get_all_tools_merge(t)
    \/ chat_async_tools(t)
    \/ chat_async_model(t)
    \/ server_chat_return(t)

\* the requests of the clients, while no server is registered
ClientCalls(t) ==
    \E request \in ChatRequests(ClientOf(t)) : server_chat_start(t, request)

\* two clients
NextClients ==
    \/ \E t \in {1, 2} : ClientCalls(t) \/ ClientSteps(t)
    \/ respond

SpecClients == Init /\ [][NextClients]_vars

(* ------------------ concurrent requests to POST /chat ------------------ *)
\* what a chat request goes through when the model asks for tools and the
\* provider answers every request
TurnSteps(t) ==
    \/ /\ \/ connect_server_start(t)
          \/ connect_server_spawn(t)
          \/ connect_server_initialize(t)
          \/ get_server_tools_start(t)
          \/ get_server_tools_connected(t)
          \/ get_server_tools_list(t)
          \/ call_tool_start(t)
          \/ call_tool_call(t)
          \/ execute_mcp_tool_start(t)
          \/ execute_mcp_tool_return(t)
       /\ UNCHANGED agentVars
    \/ get_mcp_tools_start(t)
    \/ get_mcp_tools_extend(t)
    \/ get_all_tools_start(t)
    \/ get_all_tools_merge(t)
    \/ _execute_tool_async_start(t)
    \/ _execute_tool_async_result(t)
    \/ chat_async_tools(t)
    \/ chat_async_model(t)
    \/ chat_async_tool_calls(t)
    \/ chat_async_tool_result(t)
    \/ chat_async_return(t)
    \/ server_chat_return(t)

\* server alpha is set up when the agent is created; the clients send their
\* messages before the server is connected and clear the history of a
\* conversation that has begun; the event loop serves the requests from await
\* to await
TurnCalls(t) ==
    \/ /\ Len(messages) = 1
       /\ \A u \in Tasks : Idle(u)
       /\ ~DictHas(servers, <<"alpha">>)
       /\ initialize_mcp_servers(<<"alpha">>, ConfigPath)
    \/ /\ DictHas(servers, <<"alpha">>)
       /\ \E request \in ChatRequests(ClientOf(t)) :
            /\ IF request.action = "clear" THEN Turns >= 1
               ELSE ~DictHas(sessions, <<"alpha">>)
            /\ server_chat_start(t, request)

NextTurns ==
    \/ \E t \in {1, 2} : TurnCalls(t) \/ TurnSteps(t)
    \/ respond

SpecTurns == Init /\ [][NextTurns]_vars

(* --------------------------- GET /tools (server.py) -------------------- *)
\* list(TOOL_FUNCTIONS.keys())
ToolFunctionNames ==
    CHOOSE names \in [1..Cardinality(TOOL_FUNCTIONS) -> TOOL_FUNCTIONS] :
        \A name \in TOOL_FUNCTIONS : \E i \in DOMAIN names : names[i] = name

\* tool["function"]["name"] for tool in tools
FunctionNames(tools) == [i \in 1..Len(tools) |-> tools[i].function.name]

\* the cache is not consulted
get_available_tools_local == ToolFunctionNames

\* PythonAgent.get_available_tools(): the local names, then the names of the
\* cached MCP tools when the cache is not None and not empty
get_available_tools ==
    IF mcp_tools_cache.set /\ mcp_tools_cache.tools # <<>>
    THEN ToolFunctionNames \o FunctionNames(mcp_tools_cache.tools)
    ELSE ToolFunctionNames

\* GET /tools: answered without an await
get_tools ==
    /\ phase = "up"
    /\ running = NoTask
    /\ ret = NoResult
    /\ ret' = [Result("get_tools", NoName, TRUE, <<>>, FALSE)
                 EXCEPT !.value = [tools |-> get_available_tools,
                                   enabled |-> enable_tools]]
    /\ UNCHANGED <<servers, sessions, stdio_contexts, procs, tasks, running, phase,
                   agentVars>>

\* catalogs are computed and the tool names are asked for while servers are
\* set up, disconnected, disabled and enabled, one request at a time
ToolsSteps(t) ==
    \/ CatalogSteps(t)
    \/ disable_mcp_server_start(t)
    \/ disable_mcp_server_return(t)

ToolsCalls(t) ==
    \/ CatalogCalls(t)
    \/ \E name \in ServerNames : call_disable_mcp_server(t, name)
    \/ \E name \in ServerNames : enable_mcp_server(name)
    \/ get_tools

NextTools ==
    \/ ToolsCalls(1)
    \/ ToolsSteps(1)
    \/ respond

SpecTools == Init /\ [][NextTools]_vars

(* ------------- the person records (redis-dating/mcp_server.py) --------- *)
\* names are sequences of characters; str.lower() of one character
Lower(c) == IF c = "A" THEN "a" ELSE IF c = "B" THEN "b" ELSE c

\* str.lower()
lower(s) == [i \in 1..Len(s) |-> Lower(s[i])]

\* str.strip(): the white space at both ends is removed
RECURSIVE lstrip(_)
lstrip(s) == IF s # <<>> /\ Head(s) = " " THEN lstrip(Tail(s)) ELSE s

RECURSIVE rstrip(_)
rstrip(s) ==
    IF s # <<>> /\ s[Len(s)] = " " THEN rstrip(SubSeq(s, 1, Len(s) - 1)) ELSE s

strip(s) == rstrip(lstrip(s))

\* name.strip() of a normalize_name that keeps the case of the name
normalize_name_cased(name) == strip(name)

\* name.lower().strip()
normalize_name(name) == strip(lower(name))

\* f"dating:person:{normalize_name(name)}"
get_person_key(name) == <<"dating:person:">> \o normalize_name(name)

valid_statuses == {"active", "paused", "exploring", "not_pursuing", "past"}

\* arguments.get(key) is not None: the call gives the argument
Given(arguments, key) == key \in DOMAIN arguments

\* the statuses that are drawn are written in lower case
validate_status(arguments) ==
    Given(arguments, "status") => arguments.status \in valid_statuses

\* r.exists(key)
exists(db, key) == DictHas(db.hashes, key)

\* r.hgetall(key)
hgetall(db, key) == DictGet(db.hashes, key)

\* r.hset(key, mapping=mapping): the fields of mapping are written, the other
\* fields of the hash stay
hset(db, key, mapping) ==
    [db EXCEPT !.hashes =
        DictPut(@, key, IF DictHas(@, key) THEN mapping @@ DictGet(@, key)
                        ELSE mapping)]

\* r.delete(key)
delete(db, key) == [db EXCEPT !.hashes = DictDel(@, key)]

\* ensure_index: r.sadd("dating:people:all", normalized_name)
ensure_index(db, normalized_name) ==
    [db EXCEPT !.people_all = @ \cup {normalized_name}]

\* remove_from_index: r.srem("dating:people:all", normalized_name)
remove_from_index(db, normalized_name) ==
    [db EXCEPT !.people_all = @ \ {normalized_name}]

\* a list of dates is stored as its JSON text
serialize_dates_field(dates) == json_dumps(dates)

\* what an operation answers and the database it leaves
Answer(db, result) == [db |-> db, result |-> result]

\* create_person; the time stamps and the optional texts of a record are
\* not part of the model
create_person(db, arguments) ==
    LET name == arguments.name
        key == get_person_key(name)
        status == IF Given(arguments, "status") THEN arguments.status ELSE "active"
        person_data ==
            IF Given(arguments, "dates")
            THEN [name |-> name, status |-> status,
                  dates |-> serialize_dates_field(arguments.dates)]
            ELSE [name |-> name, status |-> status]
    IN  IF name = <<>>
        THEN Answer(db, [success |-> FALSE, error |-> "Name is required"])
        ELSE IF ~validate_status(arguments)
        THEN Answer(db, [success |-> FALSE, error |-> "Invalid status"])
        ELSE IF exists(db, key)
        THEN Answer(db, [success |-> FALSE, error |-> "already exists"])
        ELSE Answer(ensure_index(hset(db, key, person_data), normalize_name(name)),
                    [success |-> TRUE, data |-> person_data])

\* update_person: the fields given are written over those of the record (with
\* no field given only the time stamp is written)
update_person(db, arguments) ==
    LET name == arguments.name
        key == get_person_key(name)
        given == { k \in {"status", "dates"} : Given(arguments, k) }
        update_data ==
            [k \in given |-> IF k = "dates" THEN serialize_dates_field(arguments.dates)
                             ELSE arguments[k]]
        written == IF given = {} THEN db ELSE hset(db, key, update_data)
    IN  IF name = <<>>
        THEN Answer(db, [success |-> FALSE, error |-> "Name is required"])
        ELSE IF ~validate_status(arguments)
        THEN Answer(db, [success |-> FALSE, error |-> "Invalid status"])
        ELSE IF ~exists(db, key)
        THEN Answer(db, [success |-> FALSE, error |-> "not found"])
        ELSE Answer(written, [success |-> TRUE, data |-> hgetall(written, key)])

\* get_person
get_person(db, arguments) ==
    LET key == get_person_key(arguments.name)
    IN  IF arguments.name = <<>>
        THEN Answer(db, [success |-> FALSE, error |-> "Name is required"])
        ELSE IF ~exists(db, key)
        THEN Answer(db, [success |-> FALSE, error |-> "not found"])
        ELSE Answer(db, [success |-> TRUE, data |-> hgetall(db, key)])

\* list_people: the records of the names of the index whose key exists, and
\* that pass the filters; the members of the index come in no order, and the
\* list is the set of its entries
list_people(db, arguments) ==
    LET keyOf(normalized_name) == <<"dating:person:">> \o normalized_name
        found == { n \in db.people_all : exists(db, keyOf(n)) }
        person_status(n) == hgetall(db, keyOf(n)).status
        passes(n) ==
            /\ (Given(arguments, "active_only") /\ arguments.active_only)
                   => person_status(n) = "active"
            /\ Given(arguments, "status") => person_status(n) = arguments.status
    IN  Answer(db, [success |-> TRUE,
                    data |-> { hgetall(db, keyOf(n)) : n \in { m \in found : passes(m) } }])

\* delete_person
delete_person(db, arguments) ==
    LET name == arguments.name
        key == get_person_key(name)
    IN  IF name = <<>>
        THEN Answer(db, [success |-> FALSE, error |-> "Name is required"])
        ELSE IF ~exists(db, key)
        THEN Answer(db, [success |-> FALSE, error |-> "not found"])
        ELSE Answer(remove_from_index(delete(db, key), normalize_name(name)),
                    [success |-> TRUE, message |-> "deleted"])

\* the provider's call_tool handler: the operation named is applied and its
\* answer is sent as JSON text
redis_dating_call_tool(db, name, arguments) ==
    LET done == CASE name = "create_person" -> create_person(db, arguments)
                  [] name = "update_person" -> update_person(db, arguments)
                  [] name = "get_person"    -> get_person(db, arguments)
                  [] name = "list_people"   -> list_people(db, arguments)
                  [] name = "delete_person" -> delete_person(db, arguments)
                  [] OTHER -> Answer(db, [success |-> FALSE, error |-> "Unknown tool"])
    IN  [db |-> done.db, text |-> json_dumps(done.result)]

\* the names, statuses and lists of dates that the calls give
PersonNames ==
    { <<>>, <<"A", "n">>, <<"a", "n">>, <<" ", "a", "n", " ">>, <<"B">>, <<" ">> }
Statuses == {"past", "bogus"}
DateLists == { <<>>, <<[where |-> <<"b">>, when |-> "2026-01-01T10:00:00Z"]>> }
PersonArguments ==
    { [name |-> n] : n \in PersonNames }
    \cup { [name |-> n, status |-> s] : n \in PersonNames, s \in Statuses }
    \cup { [name |-> n, dates |-> d] : n \in PersonNames, d \in DateLists }

\* one call of a tool of the provider, answered before the next one
call_redis_dating(name, arguments) ==
    /\ phase = "up"
    /\ running = NoTask
    /\ ret = NoResult
    /\ \A t \in Tasks : Idle(t)
    /\ LET done == redis_dating_call_tool(redis, name, arguments)
       IN  /\ redis' = done.db
           /\ ret' = [Result(name, IF Given(arguments, "name") THEN arguments.name
                                   ELSE NoName, done.text.json.success, <<>>, FALSE)
                        EXCEPT !.value = done.text]
    /\ UNCHANGED <<servers, sessions, stdio_contexts, procs, tasks, running, phase,
                   mcp_tools_cache, messages, invocation, open_loops, MCP_SERVERS>>

NextPeople ==
    \/ \E arguments \in PersonArguments : call_redis_dating("create_person", arguments)
    \/ \E arguments \in PersonArguments : call_redis_dating("update_person", arguments)
    \/ \E n \in PersonNames : call_redis_dating("delete_person", [name |-> n])
    \/ call_redis_dating("list_people", [include_details |-> TRUE])
    \/ respond

SpecPeople == Init /\ [][NextPeople]_vars

(* ------------- adding a date to a person (server.py) ------------------- *)
\* the dates a record may hold when a request starts
MaxDates == 2

DateHandlers == {"add_dossier_date", "create_calendar_date"}

\* coerce_iso_datetime of the texts that are drawn: an empty text stays, a
\* local date and time gets its seconds and "Z"
coerce_iso_datetime(value) ==
    IF value = "2026-02-01T19:00" THEN "2026-02-01T19:00:00Z" ELSE value

\* the entry of a record with key old and without key new has it under new
RenameKey(entry, old, new) ==
    IF old \in DOMAIN entry /\ new \notin DOMAIN entry
    THEN [k \in (DOMAIN entry \ {old}) \cup {new} |->
            IF k = new THEN entry[old] ELSE entry[k]]
    ELSE entry

\* normalize_date_entries: "date" becomes "when" and "location" "where"
normalize_date_entries(entries) ==
    [i \in 1..Len(entries) |->
        RenameKey(RenameKey(entries[i], "date", "when"), "location", "where")]

\* hydrate_person: details defaults to "", the JSON text of the dates is
\* parsed, a record without dates has none
hydrate_person(person) ==
    [k \in DOMAIN person \cup {"details", "dates"} |->
        IF k = "dates"
        THEN IF Given(person, "dates")
             THEN normalize_date_entries(person.dates.json)
             ELSE <<>>
        ELSE IF k = "details" /\ ~Given(person, "details") THEN ""
        ELSE person[k]]

\* a request to the provider that the handler waits for
ProviderCall(tool, arguments) ==
    [tool |-> tool, arguments |-> arguments, pending |-> TRUE, text |-> <<>>]

\* the requests of a client: the person is spelled in lower case or does not
\* exist, the place may be blank, the time may be missing
PlaceOf(t) == IF t = 1 THEN <<"c">> ELSE <<"p">>
DateRequests(t, fn) ==
    { [person_name |-> n, where |-> w, when |-> d, completed |-> c] :
        n \in { <<"a", "n">>, <<"B">> },
        w \in { PlaceOf(t), <<" ">> },
        d \in { "2026-02-01T19:00", "" },
        c \in IF fn = "create_calendar_date" THEN BOOLEAN ELSE {FALSE} }

\* the dates stored under the key of name, parsed; none without a record
StoredDates(db, name) ==
    IF exists(db, get_person_key(name))
       /\ Given(hgetall(db, get_person_key(name)), "dates")
    THEN hgetall(db, get_person_key(name)).dates.json
    ELSE <<>>

\* new_entry; the notes, the learnings and the uuid are not part of the model
new_entry(fn, request) ==
    IF fn = "create_calendar_date"
    THEN [where |-> strip(request.where), when |-> coerce_iso_datetime(request.when),
          completed |-> request.completed, person_name |-> request.person_name]
    ELSE [where |-> strip(request.where), when |-> coerce_iso_datetime(request.when)]

\* POST /dossiers/{person_name}/dates and POST /calendar/dates arrive
call_add_date(t, fn, request) ==
    /\ phase = "up"
    /\ running = NoTask
    /\ ret = NoResult
    /\ Idle(t)
    /\ \A i \in 1..Len(redis.hashes) :
         Len(StoredDates(redis, redis.hashes[i].v.name)) < MaxDates
    /\ tasks' = [tasks EXCEPT ![t] =
                   <<[Frame(fn, "start", request.person_name)
                        EXCEPT !.arguments = request]>>]
    /\ running' = t
    /\ ret' = NoResult
    /\ UNCHANGED <<servers, sessions, stdio_contexts, procs, phase, agentVars>>

\* the answer of the handler: the body, or the HTTPException
DateAnswer(f, status, data) ==
    [Result(f.fn, f.name, status = 200, <<>>, FALSE)
       EXCEPT !.value = [status |-> status, data |-> data]]

\* the request is validated and fetch_person_record asks for the record
add_date_start(t) ==
    /\ \E fn \in DateHandlers : AtSync(t, fn, "start")
    /\ LET f == Top(t)
           request == f.arguments
       IN  IF strip(request.where) = <<>> \/ coerce_iso_datetime(request.when) = ""
           THEN Return(t, DateAnswer(f, 400, <<>>))
           ELSE Suspend(t, [f EXCEPT !.pc = "fetch",
                                     !.call = ProviderCall("get_person",
                                                       [name |-> request.person_name])])
    /\ UNCHANGED <<servers, sessions, stdio_contexts, procs, phase, agentVars>>

\* execute_mcp_tool with the redis-dating server connected: the provider
\* applies the request that a handler waits for and sends its answer
redis_dating_serve(t) ==
    /\ running = NoTask
    /\ ret = NoResult
    /\ ~Idle(t)
    /\ Top(t).fn \in DateHandlers
    /\ Top(t).pc \in {"fetch", "update", "payload"}
    /\ Top(t).call.pending
    /\ LET done == redis_dating_call_tool(redis, Top(t).call.tool,
                                          Top(t).call.arguments)
       IN  /\ redis' = done.db
           /\ tasks' = [tasks EXCEPT ![t] =
                          <<[Top(t) EXCEPT !.call.pending = FALSE,
                                           !.call.text = done.text]>> \o Tail(@)]
    /\ UNCHANGED <<servers, sessions, stdio_contexts, procs, running, ret, phase,
                   mcp_tools_cache, messages, invocation, open_loops, MCP_SERVERS>>

\* fetch_person_record: the person_data of the answer, when it has a name
Fetched(text) ==
    LET payload == text.json
        person_data == IF Given(payload, "data") THEN payload.data ELSE payload
    IN  IF Given(person_data, "name") /\ person_data.name # <<>>
        THEN <<hydrate_person(person_data)>>
        ELSE <<>>

\* the record has arrived: the new entry is put after the dates of the record
\* and update_person is asked to store the whole list
add_date_fetched(t) ==
    /\ \E fn \in DateHandlers : AtAwait(t, fn, "fetch")
    /\ ~Top(t).call.pending
    /\ LET f == Top(t)
           person == Fetched(f.call.text)
           entry == new_entry(f.fn, f.arguments)
       IN  IF person = <<>>
           THEN Return(t, DateAnswer(f, 404, <<>>))
           ELSE Suspend(t, [f EXCEPT
                  !.pc = "update",
                  !.acc = <<entry>>,
                  !.call = ProviderCall("update_person",
                                    [name |-> person[1].name,
                                     dates |-> person[1].dates \o <<entry>>])])
    /\ UNCHANGED <<servers, sessions, stdio_contexts, procs, phase, agentVars>>

\* the answer of update_person is not looked at; the memory of the date is
\* stored unless the date is completed
add_date_updated(t) ==
    /\ \E fn \in DateHandlers : AtAwait(t, fn, "update")
    /\ ~Top(t).call.pending
    /\ LET f == Top(t)
       IN  IF f.fn = "create_calendar_date" /\ f.arguments.completed
           THEN Return(t, DateAnswer(f, 200, f.acc[1]))
           ELSE Suspend(t, [f EXCEPT !.pc = "memory"])
    /\ UNCHANGED <<servers, sessions, stdio_contexts, procs, phase, agentVars>>

\* store_memory_entries has returned, whatever the memory server did:
\* create_calendar_date answers the new entry, add_dossier_date builds the
\* dossier of the person
add_date_stored(t) ==
    /\ \E fn \in DateHandlers : AtAwait(t, fn, "memory")
    /\ LET f == Top(t)
       IN  IF f.fn = "create_calendar_date"
           THEN Return(t, DateAnswer(f, 200, f.acc[1]))
           ELSE Suspend(t, [f EXCEPT !.pc = "payload",
                                     !.call = ProviderCall("get_person",
                                                       [name |-> f.name])])
    /\ UNCHANGED <<servers, sessions, stdio_contexts, procs, phase, agentVars>>

\* build_dossier_payload: the record as it is now
add_date_payload(t) ==
    /\ AtAwait(t, "add_dossier_date", "payload")
    /\ ~Top(t).call.pending
    /\ LET f == Top(t)
           person == Fetched(f.call.text)
       IN  IF person = <<>>
           THEN Return(t, DateAnswer(f, 404, <<>>))
           ELSE Return(t, DateAnswer(f, 200, person[1]))
    /\ UNCHANGED <<servers, sessions, stdio_contexts, procs, phase, agentVars>>

DateSteps(t) ==
    \/ add_date_start(t)
    \/ redis_dating_serve(t)
    \/ add_date_fetched(t)
    \/ add_date_updated(t)
    \/ add_date_stored(t)
    \/ add_date_payload(t)

\* a person is created, with or without a date, by the time nobody is served
DateCalls(t) ==
    \/ \E arguments \in PersonArguments :
         /\ arguments.name = <<"A", "n">>
         /\ ~Given(arguments, "status")
         /\ call_redis_dating("create_person", arguments)
    \/ \E fn \in DateHandlers :
         \E request \in DateRequests(t, fn) : call_add_date(t, fn, request)

\* two clients add dates
NextDates ==
    \/ DateCalls(1)
    \/ DateCalls(2)
    \/ DateSteps(1)
    \/ DateSteps(2)
    \/ respond

SpecDates == Init /\ [][NextDates]_vars

(* ------------------------------ properties ----------------------------- *)
Name(t) == Top(t).name

\* a step in which the innermost coroutine of task t, fn, returns
Returns(t, fn) ==
    /\ ~Idle(t)
    /\ Top(t).fn = fn
    /\ tasks'[t] = Tail(tasks[t])
    /\ ret'.fn = fn

\* C1: connect_server on a server whose session is in the session table
\* returns success, spawns no process for it and keeps its session.
C1_ConnectIdempotent ==
    [][\A name \in ServerNames :
         DictHas(sessions, name) =>
           /\ procs'[name] \subseteq procs[name]
           /\ DictHas(sessions', name) =>
                DictGet(sessions', name) = DictGet(sessions, name)
           /\ (ret'.fn = "connect_server" /\ ret'.name = name) => ret'.ok]_vars

\* the running processes of name that a table holds or a connect is setting up
Held(name) ==
    procs[name] \cap
      ( (IF DictHas(sessions, name) THEN {DictGet(sessions, name)} ELSE {})
        \cup {stdio_contexts[name]}
        \cup { Top(t).proc : t \in { u \in Tasks :
                 /\ ~Idle(u)
                 /\ Top(u).fn = "connect_server"
                 /\ Top(u).pc = "initialize"
                 /\ Top(u).name = name } } )

\* the step in which a connect made lazily by get_server_tools or call_tool
\* spawns its process
LazySpawn(t) ==
    /\ Len(tasks[t]) >= 2
    /\ AtAwait(t, "connect_server", "spawn")
    /\ procs'[Name(t)] # procs[Name(t)]

\* C2: under every interleaving of get_server_tools, call_tool and
\* connect_server calls for a server, at most one process is live for it:
\* a lazy connect never spawns a process for a name while another process of
\* that name is connected or being connected.
C2_OneProcessPerServer ==
    [][\A t \in Tasks : LazySpawn(t) => Held(Name(t)) = {}]_vars

\* connect_server is about to check a registered server whose path is missing
MissingPath(t) ==
    /\ AtSync(t, "connect_server", "start")
    /\ DictHas(servers, Name(t))
    /\ ~PathExists(DictGet(servers, Name(t)).path)

C4_DisconnectNoOp ==
    [][\A t \in Tasks :
         ( /\ AtSync(t, "disconnect_server", "start")
           /\ ~DictHas(sessions, Name(t))
           /\ stdio_contexts[Name(t)] = NoProc )
         => /\ ret'.fn = "disconnect_server"
            /\ ~ret'.exc
            /\ UNCHANGED <<servers, sessions, stdio_contexts, procs>>]_vars

\* disconnect_server has just returned for a name that was never registered
C4_Witness ==
    /\ ret.fn = "disconnect_server"
    /\ Idle(1)
    /\ ~DictHas(servers, ret.name)
    /\ servers # <<>>

\* C5: when disconnect_all returns at shutdown, disconnect_server was called
\* for every server that had a session when it began, nothing was raised and
\* every connected flag is false.
C5_ShutdownDisconnectsAll ==
    [][\A t \in Tasks :
         Returns(t, "disconnect_all") =>
           /\ Top(t).acc = Top(t).keys
           /\ ~ret'.exc
           /\ phase' = "stopped"
           /\ \A name \in ServerNames : ~Connected(servers', name)]_vars

\* shutdown has completed although closing the session of a server raised
\* (its key is still in the table) while another server was torn down
C5_Witness ==
    /\ phase = "stopped"
    /\ Len(sessions) = 1
    /\ Len(servers) = 2
    /\ \A name \in ServerNames : stdio_contexts[name] = NoProc

\* p is a prefix of the name s
HasPrefix(s, p) == Len(s) >= Len(p) /\ SubSeq(s, 1, Len(p)) = p

\* the catalog entries of the servers in names, in that order
RECURSIVE RemoteTools(_)
RemoteTools(names) ==
    IF names = <<>> THEN <<>>
    ELSE OpenAITools(Head(names), ProviderTools(Head(names)))
           \o RemoteTools(Tail(names))

\* C6: get_server_tools never raises and returns [] when the connect or the
\* list request fails; the catalog of get_all_tools is the local tools
\* followed by all the tools of every server that answered, a failing server
\* contributing nothing; the list request is only made of a server that has
\* a session, the lazy connect having succeeded.
C6_FailingServerDegrades ==
    /\ ret.fn = "get_server_tools" =>
         /\ ~ret.exc
         /\ ~ret.ok => ret.tools = <<>>
    /\ ret.fn = "get_all_tools" =>
         /\ ~ret.exc
         /\ ret.tools = TOOLS \o RemoteTools(ret.answered)
    /\ \A t \in Tasks :
         (~Idle(t) /\ Top(t).fn = "get_server_tools" /\ Top(t).pc = "list_tools")
           => DictHas(sessions, Top(t).name)

\* get_all_tools has returned a catalog with the tools of one server while
\* the other registered server failed
C6_Witness ==
    /\ ret.fn = "get_all_tools"
    /\ Len(servers) = 2
    /\ Len(ret.answered) = 1
    /\ Len(ret.tools) = Len(TOOLS) + Len(ProviderTools(ret.answered[1]))

\* the catalog entries whose name begins with the server name and a separator
Prefixed(catalog, s) ==
    { i \in 1..Len(catalog) : HasPrefix(catalog[i].function.name, s \o <<Sep>>) }

\* the catalog has an entry s_t for tool t of server s, with its description
\* and its schema (the default one when the provider gave none)
Listed(catalog, s, tool) ==
    \E i \in 1..Len(catalog) :
        /\ catalog[i].type = "function"
        /\ catalog[i].function.name = s \o <<Sep>> \o tool.name
        /\ catalog[i].function.description = tool.description
        /\ catalog[i].function.parameters =
             (IF tool.inputSchema = EmptySchema
              THEN [type |-> "object", properties |-> {}]
              ELSE tool.inputSchema)

\* C7 as stated: for every server that advertises N tools the catalog has
\* exactly N entries whose name begins with the server name and '_', one per
\* tool, with description and schema kept, whatever the server names are.
C7_ExactlyNPrefixed ==
    ret.fn = "get_all_tools" =>
      \A k \in 1..Len(ret.answered) :
        LET s == ret.answered[k] IN
          /\ Cardinality(Prefixed(ret.tools, s)) = Len(ProviderTools(s))
          /\ \A j \in 1..Len(ProviderTools(s)) :
                Listed(ret.tools, s, ProviderTools(s)[j])

\* no catalog entry of another server of names, and no local tool, has a name
\* that begins with s_
PrefixFree(s, names) ==
    /\ \A k \in 1..Len(names) :
          names[k] # s =>
            \A j \in 1..Len(ProviderTools(names[k])) :
              ~HasPrefix(names[k] \o <<Sep>> \o ProviderTools(names[k])[j].name,
                         s \o <<Sep>>)
    /\ \A i \in 1..Len(TOOLS) :
          ~HasPrefix(TOOLS[i].function.name, s \o <<Sep>>)

\* C7 amended: for every server s that answered with N tools the catalog has
\* an entry s_t for each tool t, with description and schema kept, and the
\* entries whose name begins with s_ are exactly these N when no entry of
\* another answering server and no local tool has a name that begins with s_.
C7_NPrefixedWhenPrefixFree ==
    ret.fn = "get_all_tools" =>
      \A k \in 1..Len(ret.answered) :
        LET s == ret.answered[k] IN
          /\ \A j \in 1..Len(ProviderTools(s)) :
                Listed(ret.tools, s, ProviderTools(s)[j])
          /\ PrefixFree(s, ret.answered) =>
                Cardinality(Prefixed(ret.tools, s)) = Len(ProviderTools(s))

\* a catalog with the two tools of alpha and nothing of alpha_x
C7_Witness ==
    /\ ret.fn = "get_all_tools"
    /\ ret.answered = << <<"alpha">> >>
    /\ Len(servers) = 2
    /\ Cardinality(Prefixed(ret.tools, <<"alpha">>)) = 2

\* C8: no two entries of a catalog returned by get_all_tools have the same
\* function name.
C8_UniqueNames ==
    ret.fn = "get_all_tools" =>
      \A i, j \in 1..Len(ret.tools) :
        i # j => ret.tools[i].function.name # ret.tools[j].function.name

\* C9: the tools chat_async passes to the model are the local tools followed
\* by the tools of exactly the registered servers that answered a list
\* request made for this model call; nothing is taken from the cache.
C9_CatalogPerTurn ==
    invocation.fn = "chat_async" =>
      /\ invocation.tools = TOOLS \o RemoteTools(invocation.answered)
      /\ \A k \in 1..Len(invocation.answered) :
            DictHas(servers, invocation.answered[k])
      /\ \A name \in ServerNames :
            (\E i \in 1..Len(invocation.tools) :
                invocation.tools[i] \in
                  { OpenAITool(name, ProviderTools(name)[j]) :
                      j \in 1..Len(ProviderTools(name)) })
            => \E k \in 1..Len(invocation.answered) :
                  invocation.answered[k] = name

\* the model call of a second turn, two servers being registered of which
\* one answered; the cache holds what this turn computed
C9_Witness ==
    /\ invocation.fn = "chat_async"
    /\ Turns = 2
    /\ Len(servers) = 2
    /\ Len(invocation.answered) = 1
    /\ mcp_tools_cache.tools = RemoteTools(invocation.answered)

\* a registered server whose session process is running
Reachable(name) ==
    /\ DictHas(servers, name)
    /\ DictHas(sessions, name)
    /\ DictGet(sessions, name) \in procs[name]

\* C10: every model call, of chat and of chat_async, receives the whole
\* transcript and the unified catalog: the local tools and the tools of the
\* registered servers that can be reached.
C10_EveryInvocationUnified ==
    invocation # NoInvocation =>
      /\ invocation.messages = ApiMessages(messages)
      /\ \A i \in 1..Len(TOOLS) :
            \E j \in 1..Len(invocation.tools) : invocation.tools[j] = TOOLS[i]
      /\ invocation.fn = "chat_async" =>
            invocation.tools = TOOLS \o RemoteTools(invocation.answered)
      /\ invocation.fn = "chat" =>
            \A name \in ServerNames :
              Reachable(name) =>
                \A k \in 1..Len(ProviderTools(name)) :
                  Listed(invocation.tools, name, ProviderTools(name)[k])

\* the text the asynchronous path makes of a call and of the dict the
\* provider path produced for it
AsyncText(tool_call, result) ==
    IF Dispatch(tool_call).remote THEN Envelope(result)
    ELSE Dispatch(tool_call).text

\* C11: for the same tool call and the same outcome of the provider path,
\* _execute_tool, with or without a running loop, returns the text that
\* _execute_tool_async returns.
C11_SyncAsyncSameEnvelope ==
    (ret.fn \in {"_execute_tool", "_execute_tool_async"} /\ ~ret.exc) =>
      ret.value = AsyncText(ret.outcome.call, ret.outcome.result)

\* C12: once the 10 seconds of the wait have passed, _execute_tool is not
\* waiting for the worker thread any more.
C12_TimeoutNotBlocked ==
    \A t \in Tasks : \A j \in 1..Len(tasks[t]) :
        (tasks[t][j].fn = "_execute_tool" /\ tasks[t][j].timed_out) => j = 1

\* C13: when no call of the bridge is in progress, every temporary event
\* loop that the bridge created has been closed.
C13_TemporaryLoopsClosed ==
    (\A t \in Tasks : Idle(t)) => open_loops = 0

\* C14: once a round of tool calls is over, the assistant message that
\* carries k requests is followed by exactly k tool messages, the m-th with
\* the id of the m-th request, whatever the types of the requests.
C14_OneToolMessagePerRequest ==
    \A i \in 1..Len(messages) :
        (/\ messages[i].role = "assistant"
         /\ messages[i].tool_calls # <<>>
         /\ \E j \in (i + 1)..Len(messages) : messages[j].role = "user")
        => LET k == Len(messages[i].tool_calls) IN
           /\ Len(messages) > i + k
           /\ messages[i + k + 1].role = "user"
           /\ \A m \in 1..k :
                /\ messages[i + m].role = "tool"
                /\ messages[i + m].tool_call_id = messages[i].tool_calls[m].id

\* msgs is what the transcript began with
KeptIn(msgs, transcript) ==
    /\ Len(msgs) <= Len(transcript)
    /\ SubSeq(transcript, 1, Len(msgs)) = msgs

Executes == ret.fn \in {"_execute_tool", "_execute_tool_async"} /\ ~ret.exc

\* the name is no local tool and the text before its first '_', if it has
\* one, is no registered server
Unresolvable(function_name) ==
    /\ function_name \notin TOOL_FUNCTIONS
    /\ HasSep(function_name) => ~DictHas(servers, SplitServer(function_name))

\* C16: the execution of a tool whose name resolves to no local tool and no
\* registered server returns a failure envelope whose error is not the one
\* of a failed connection to a server.
C16_UnknownToolNotFound ==
    (Executes /\ Unresolvable(ret.outcome.call.function.name)) =>
      LET function_name == ret.outcome.call.function.name IN
      /\ ~ret.value.json.success
      /\ HasSep(function_name) =>
           ret.value.json.error # CouldNotConnect(SplitServer(function_name)).error

\* C17: a name of the local tool table is executed locally and is never
\* handed to execute_mcp_tool, whatever servers are registered; the call_tool
\* that execute_mcp_tool awaits is for the server named by the text before
\* the first '_' and for the tool named by the rest.
C17_LocalFirstRouting ==
    /\ \A t \in Tasks : \A j \in 1..Len(tasks[t]) :
         tasks[t][j].fn = "execute_mcp_tool" =>
           tasks[t][j].tool \notin TOOL_FUNCTIONS
    /\ \A t \in Tasks : \A j \in 1..(Len(tasks[t]) - 1) :
         (tasks[t][j].fn = "call_tool" /\ tasks[t][j + 1].fn = "execute_mcp_tool") =>
           /\ ~HasSep(tasks[t][j].name)
           /\ tasks[t][j].name \o <<Sep>> \o tasks[t][j].tool = tasks[t][j + 1].tool
    /\ (Executes /\ ret.outcome.call.function.name \in TOOL_FUNCTIONS) =>
           /\ ret.outcome.result = <<>>
           /\ ret.value = Dispatch(ret.outcome.call).text

\* demo_tool has been executed locally while the server demo is registered
\* and has a session
C17_Witness ==
    /\ Executes
    /\ ret.outcome.call.function.name = <<"demo", "_", "tool">>
    /\ ret.value.json.success
    /\ "data" \in DOMAIN ret.value.json
    /\ DictHas(servers, <<"demo">>)
    /\ DictHas(sessions, <<"demo">>)
    /\ DictGet(sessions, <<"demo">>) \in procs[<<"demo">>]

\* C18: when execute_mcp_tool is given the catalog name s_t of a tool t of a
\* registered server s that has a session, the call_tool it awaits is for
\* tool t on server s, also when s contains '_'.
C18_NamespaceRoundTrip ==
    \A t \in Tasks : \A j \in 1..(Len(tasks[t]) - 1) :
      (tasks[t][j].fn = "call_tool" /\ tasks[t][j + 1].fn = "execute_mcp_tool") =>
        \A s \in ServerNames \cup BridgeNames :
          \A k \in 1..Len(ProviderTools(s)) :
            (/\ DictHas(servers, s)
             /\ DictHas(sessions, s)
             /\ tasks[t][j + 1].tool = Namespaced(s, ProviderTools(s)[k].name))
            => /\ tasks[t][j].name = s
               /\ tasks[t][j].tool = ProviderTools(s)[k].name

\* C19: the text a tool execution returns is an object with a boolean
\* success and exactly one more member: result when success is true, error
\* when it is false.
C19_EnvelopeShape ==
    Executes =>
      LET envelope == ret.value.json IN
      /\ "success" \in DOMAIN envelope
      /\ envelope.success \in BOOLEAN
      /\ IF envelope.success
         THEN DOMAIN envelope = {"success", "result"}
         ELSE DOMAIN envelope = {"success", "error"}

\* C20: add_server of a name that is already registered changes nothing in
\* the supervisor's state: neither the stored script path, nor the
\* connected flag, nor the session of the server.
C20_ReRegistrationKeepsState ==
    [][\A name \in ServerNames, path \in Paths :
         (DictHas(servers, name) /\ add_server(name, path)) =>
           /\ servers' = servers
           /\ sessions' = sessions]_vars

\* C21: while a server is disabled in MCP_SERVERS no process is spawned for
\* it, and no catalog that get_mcp_tools returns has an entry of it.
C21_DisabledNeverConnected ==
    [][\A name \in ServerNames :
         (~MCP_SERVERS[name].enabled /\ ~MCP_SERVERS'[name].enabled) =>
           /\ procs'[name] \subseteq procs[name]
           /\ ret'.fn = "get_mcp_tools" =>
                \A i \in 1..Len(ret'.tools) :
                  ~HasPrefix(ret'.tools[i].function.name, name \o <<Sep>>)]_vars

\* the request of task t has been written to the session of its server and
\* its response has not been received
InFlight(t) ==
    /\ ~Idle(t)
    /\ Top(t).fn = "call_tool"
    /\ Top(t).pc = "call_tool"

\* C22: at most one call_tool request is in flight on the session of a
\* server: two coroutines never both wait for the response of a call on the
\* same connection.
C22_OneCallInFlight ==
    \A t1, t2 \in Tasks :
      (t1 # t2 /\ InFlight(t1) /\ InFlight(t2) /\ Top(t1).name = Top(t2).name) =>
        Top(t1).proc # Top(t2).proc

\* C23: a catalog computation completes without an exception and has gone
\* through every server that was registered when it began, also when a
\* server is registered while it waits for a provider.
C23_SnapshotConsistent ==
    [][\A t \in Tasks :
         Returns(t, "get_mcp_tools") =>
           /\ ~ret'.exc
           /\ Top(t).i = Top(t).n]_vars

\* what the other clients say
ForeignMessages(client) ==
    { ClientMessage(ClientOf(t)) : t \in { u \in Tasks : ClientOf(u) # client } }

\* C24: the history answered to a client has no user message of another
\* client's conversation, and neither has the transcript handed to the model
\* for a client's turn.
C24_TranscriptNotShared ==
    /\ (ret.fn = "server.chat" /\ ~ret.exc /\ "history" \in DOMAIN ret.value) =>
         \A i \in 1..Len(ret.value.history) :
           ret.value.history[i].role = "user" =>
             ret.value.history[i].content \notin ForeignMessages(ret.name[1])
    /\ \A t \in Tasks :
         AtSync(t, "chat_async", "model") =>
           \A i \in 1..Len(invocation.messages) :
             invocation.messages[i].role = "user" =>
               invocation.messages[i].content \notin ForeignMessages(ClientOf(t))

\* the request to clear the history has been answered
Cleared ==
    /\ ret.fn = "server.chat"
    /\ ~ret.exc
    /\ "message" \in DOMAIN ret.value

\* C25: after clear_history the transcript is exactly the system message
\* the agent was created with and get_messages() is empty; get_messages()
\* has no message of role system in any state.
C25_ClearHistoryResets ==
    /\ Cleared =>
         /\ messages = <<Message("system", "system prompt")>>
         /\ get_messages(messages) = <<>>
    /\ \A i \in 1..Len(get_messages(messages)) :
         get_messages(messages)[i].role # "system"

\* the history has been cleared after a turn, for which the catalog was
\* computed
C25_Witness ==
    /\ Cleared
    /\ mcp_tools_cache.set

\* call_tool has returned after its request on the session was answered or
\* raised
Called == ret.fn = "call_tool" /\ ret.outcome # <<>>

\* str(e) mentions background_tasks
MentionsBackgroundTasks(error_msg) ==
    \E i \in 1..Len(error_msg) : error_msg[i] = "background_tasks"

\* C26 as stated: call_tool never raises; an answered request gives success
\* with the concatenation of the text of the content fragments as result,
\* and a request that raised gives a mapping with the exception message as
\* error and no success member.
C26_CallToolResult ==
    Called =>
      /\ ~ret.exc
      /\ IF "content" \in DOMAIN ret.outcome
         THEN /\ ret.value.success
              /\ ret.value.result = ContentText(ret.outcome.content)
         ELSE /\ "success" \notin DOMAIN ret.value
              /\ ret.value.error = ret.outcome.raised

\* C26 amended: the result is the concatenation when the response has
\* content and the text of the whole response object when it has none; the
\* error is the exception message unless that mentions background_tasks.
C26_CallToolResultAmended ==
    Called =>
      /\ ~ret.exc
      /\ IF "content" \in DOMAIN ret.outcome
         THEN /\ ret.value.success
              /\ ret.outcome.content # <<>> =>
                   ret.value.result = ContentText(ret.outcome.content)
              /\ ret.outcome.content = <<>> =>
                   ret.value.result = <<"CallToolResult()">>
         ELSE /\ "success" \notin DOMAIN ret.value
              /\ "error" \in DOMAIN ret.value
              /\ ~MentionsBackgroundTasks(ret.outcome.raised) =>
                   ret.value = [error |-> ret.outcome.raised]

\* a response of three fragments, one of them without text, has been turned
\* into the result "echo" "done"
C26_Witness ==
    /\ Called
    /\ "content" \in DOMAIN ret.outcome
    /\ Len(ret.outcome.content) = 3
    /\ ret.value.result = <<"echo", "done">>

\* C27: when the request raises with a message that mentions
\* background_tasks, call_tool returns an error that names the tool and
\* suggests an alternative tool, with the names of the tool and of the
\* server, and not the raw message.
C27_BackgroundTasksError ==
    [][\A t \in Tasks :
         (/\ Returns(t, "call_tool")
          /\ "raised" \in DOMAIN ret'.outcome
          /\ MentionsBackgroundTasks(ret'.outcome.raised))
         => /\ ~ret'.exc
            /\ DOMAIN ret'.value = {"error", "tool_name", "server_name"}
            /\ ret'.value.tool_name = Top(t).tool
            /\ ret'.value.server_name = Top(t).name
            /\ ret'.value.error # ret'.outcome.raised
            /\ ret'.value.error =
                 <<"Tool">> \o Top(t).tool
                   \o <<"requires FastAPI dependencies that are not available via MCP. Please use an alternative tool.">>]_vars

\* a call of echo on server alpha has raised with a message that mentions
\* background_tasks
C27_Witness ==
    /\ Called
    /\ ret.name = <<"alpha">>
    /\ "raised" \in DOMAIN ret.outcome
    /\ MentionsBackgroundTasks(ret.outcome.raised)
    /\ "tool_name" \in DOMAIN ret.value
    /\ ret.value.tool_name = <<"echo">>

\* C28: every entry get_server_tools returns is {type: "function",
\* function: {name, description, parameters}}, one per advertised tool, and
\* the parameters of a tool whose provider gave no schema are an object
\* schema with no properties and no required member.
C28_ModelFacingShape ==
    ret.fn = "get_server_tools" =>
      /\ ret.ok => Len(ret.tools) = Len(ProviderTools(ret.name))
      /\ \A i \in 1..Len(ret.tools) :
           LET entry == ret.tools[i]
               tool == ProviderTools(ret.name)[i]
           IN /\ DOMAIN entry = {"type", "function"}
              /\ entry.type = "function"
              /\ DOMAIN entry.function = {"name", "description", "parameters"}
              /\ tool.inputSchema = EmptySchema =>
                   /\ entry.function.parameters.type = "object"
                   /\ entry.function.parameters.properties = {}
                   /\ "required" \notin DOMAIN entry.function.parameters

\* get_server_tools has returned the tools of alpha, whose tool echo has no
\* schema
C28_Witness ==
    /\ ret.fn = "get_server_tools"
    /\ ret.ok
    /\ ret.name = <<"alpha">>
    /\ \E i \in 1..Len(ret.tools) :
         /\ ProviderTools(ret.name)[i].inputSchema = EmptySchema
         /\ ret.tools[i].function.name = <<"alpha", "_", "echo">>
         /\ ret.tools[i].function.parameters = [type |-> "object", properties |-> {}]

\* C29: in the transcript of every model invocation, an assistant message
\* with tool-call requests is followed by as many tool messages as it has
\* requests.
C29_AllToolResultsBeforeModel ==
    invocation.fn # "" =>
      \A i \in 1..Len(invocation.messages) :
        LET msg == invocation.messages[i] IN
        "tool_calls" \in DOMAIN msg =>
          /\ i + Len(msg.tool_calls) <= Len(invocation.messages)
          /\ \A k \in 1..Len(msg.tool_calls) :
               invocation.messages[i + k].role = "tool"

\* C30: whenever chat or chat_async returns, the last message of the
\* transcript is an assistant message without tool-call requests, and it is
\* the message returned to the caller.
C30_TurnEndsWithAnswer ==
    [][\A t \in Tasks :
         (Returns(t, "chat") \/ Returns(t, "chat_async")) =>
           LET last == messages'[Len(messages')] IN
           /\ last.role = "assistant"
           /\ last.tool_calls = <<>>
           /\ ret'.value = last]_vars

\* chat_async has returned the answer of a turn that went through a round
\* of tool calls
C30_Witness ==
    /\ ret.fn = "chat_async"
    /\ \A t \in Tasks : Idle(t)
    /\ Len(messages) >= 6
    /\ ret.value = messages[Len(messages)]
    /\ messages[Len(messages)].content = "answer"
    /\ messages[Len(messages) - 1].content = Continuation
    /\ messages[Len(messages) - 2].role = "tool"
    /\ \E i \in 1..Len(messages) : messages[i].tool_calls # <<>>
\* a turn of task t is in progress: chat or chat_async has not returned
TurnOpen(t) ==
    /\ ~Idle(t)
    /\ tasks[t][Len(tasks[t])].fn \in {"chat", "chat_async"}

\* C31: when the model answers every invocation, asks for tools in finitely
\* many rounds only and every tool execution returns, a turn that has started
\* reaches Done: chat / chat_async returns to its caller.
C31_TurnTerminates == TurnOpen(1) ~> Idle(1)

\* a turn has returned its final response after a round of tool calls in
\* which a provider was asked
C31_Witness ==
    /\ Idle(1)
    /\ ret.fn \in {"chat", "chat_async"}
    /\ ~ret.exc
    /\ ret.value = messages[Len(messages)]
    /\ Rounds >= 1
    /\ \E i \in 1..Len(messages) :
         /\ messages[i].role = "tool"
         /\ messages[i].tool_call_id = "c2"
         /\ procs[<<"alpha">>] # {}

\* the rounds of tool calls the turn of task t has entered: the invocations
\* of chat / chat_async on its stack that are executing tools or are waiting
\* for the nested invocation
RoundsEntered(t) ==
    Cardinality({ j \in 1..Len(tasks[t]) :
                    /\ tasks[t][j].fn \in {"chat", "chat_async"}
                    /\ tasks[t][j].pc \in {"tool_result", "return"} })

\* the model's response is recorded as an assistant message with tool calls
RequestsTools ==
    /\ Len(messages') > Len(messages)
    /\ messages'[Len(messages) + 1].role = "assistant"
    /\ messages'[Len(messages) + 1].tool_calls # <<>>

TurnDone ==
    /\ Idle(1)
    /\ ret.fn \in {"chat", "chat_async"}
    /\ ~ret.exc

\* the index of the message that started the last turn: the last user message
\* that is not a continuation
TurnStart ==
    CHOOSE i \in 1..Len(messages) :
        /\ messages[i].role = "user" /\ messages[i].content # Continuation
        /\ \A j \in (i + 1)..Len(messages) :
              ~(messages[j].role = "user" /\ messages[j].content # Continuation)

\* the messages of the last turn that satisfy Test
CountFrom(start, Test(_)) ==
    Cardinality({ i \in start..Len(messages) : Test(messages[i]) })

IsUser(m) == m.role = "user"
IsContinuation(m) == m.role = "user" /\ m.content = Continuation
IsRequest(m) == m.role = "assistant" /\ m.tool_calls # <<>>
IsFinal(m) == m.role = "assistant" /\ m.tool_calls = <<>>

\* C33: a turn that went through r tool rounds (r responses with tool calls)
\* has added 1 + r user messages, r of them the synthetic continuation, r
\* assistant messages with tool-call requests and one final assistant
\* message, its last; get_messages() returns the continuation messages too.
C33_TurnMessages ==
    TurnDone =>
      LET r == CountFrom(TurnStart, IsRequest)
          history == get_messages(messages)
      IN /\ CountFrom(TurnStart, IsUser) = 1 + r
         /\ CountFrom(TurnStart, IsContinuation) = r
         /\ CountFrom(TurnStart, IsFinal) = 1
         /\ IsFinal(messages[Len(messages)])
         /\ Cardinality({ k \in 1..Len(history) :
                            /\ history[k].role = "user"
                            /\ history[k].content = Continuation })
              = CountFrom(1, IsContinuation)

\* chat_async has returned after a round of tool calls, and the history it
\* leaves has a continuation message
C33_Witness ==
    /\ TurnDone
    /\ ret.fn = "chat_async"
    /\ CountFrom(TurnStart, IsRequest) = 1
    /\ \E k \in 1..Len(get_messages(messages)) :
         get_messages(messages)[k] = [role |-> "user", content |-> Continuation]

\* no operation of the supervisor is in progress
Quiescent == \A t \in Tasks : Idle(t)

\* C34: between the operations of the supervisor, a server's connected flag
\* is true exactly when the session table holds a session for it, the session
\* table and the stdio-context table have the same server names, and all of
\* them are registered.
C34_TablesAgree ==
    Quiescent =>
      \A name \in ServerNames :
        /\ Connected(servers, name) <=> DictHas(sessions, name)
        /\ DictHas(sessions, name) <=> stdio_contexts[name] # NoProc
        /\ DictHas(sessions, name) => DictHas(servers, name)

\* C35: when disconnect_server(name) returns, also after an error of closing
\* the session or the streams, the supervisor holds no session and no stdio
\* context for name, so that the next get_server_tools or call_tool on it,
\* which connect exactly when the session table has no entry, start a fresh
\* connect instead of using the session that was torn down.
C35_DisconnectForgets ==
    [][\A t \in Tasks :
         Returns(t, "disconnect_server") =>
           /\ ~DictHas(sessions', Name(t))
           /\ stdio_contexts'[Name(t)] = NoProc]_vars

\* C36: between the operations of the supervisor, every provider process
\* that was spawned and not torn down is the one the stdio-context table has
\* for its server (so that a disconnect can reach it); in particular a
\* connect_server that fails after the spawn has closed the process when it
\* returns False.
C36_ProcessesReachable ==
    Quiescent =>
      \A name \in ServerNames :
        \A p \in procs[name] : stdio_contexts[name] = p

\* the call identifiers of the requests of an assistant message
RequestIds(m) == { m.tool_calls[k].id : k \in 1..Len(m.tool_calls) }

\* C37: under every interleaving of two chat_async turns and of clear_history
\* on the one agent, every tool message of the transcript is preceded by an
\* assistant message whose requests include its call identifier, with
\* nothing but tool messages between the two.
C37_TranscriptWellFormed ==
    \A i \in 1..Len(messages) :
      messages[i].role = "tool" =>
        \E j \in 1..(i - 1) :
          /\ IsRequest(messages[j])
          /\ messages[i].tool_call_id \in RequestIds(messages[j])
          /\ \A k \in (j + 1)..(i - 1) : messages[k].role = "tool"

\* get_all_tools returns a catalog it computed without an exception
CatalogComputed(t) ==
    /\ Returns(t, "get_all_tools")
    /\ ~ret.exc

\* C38: get_available_tools() is the local tool names before the first
\* catalog; a catalog that get_all_tools() computed successfully makes it the
\* local names followed by exactly the remote names of that catalog; no other
\* step (connect, disconnect, disable, enable, a failed catalog, a provider
\* failure) changes it; GET /tools answers it.
C38_AvailableTools ==
    /\ get_available_tools = ToolFunctionNames
    /\ [][/\ \A t \in Tasks :
              CatalogComputed(t) =>
                get_available_tools' =
                  ToolFunctionNames
                    \o FunctionNames(SubSeq(ret'.tools, Len(TOOLS) + 1,
                                            Len(ret'.tools)))
          /\ (\A t \in Tasks : ~CatalogComputed(t)) =>
                get_available_tools' = get_available_tools
          /\ ret'.fn = "get_tools" /\ ret.fn # "get_tools" =>
                ret'.value.tools = get_available_tools]_vars

\* GET /tools has answered the names of the tools of a server that has been
\* disconnected and disabled since the catalog was computed
C38_Witness ==
    /\ ret.fn = "get_tools"
    /\ \E i \in 1..Len(ret.value.tools) :
         ret.value.tools[i] = <<"alpha", "_", "echo">>
    /\ ~DictHas(sessions, <<"alpha">>)
    /\ ~MCP_SERVERS[<<"alpha">>].enabled

\* the identity of a person: its name in lower case without the white space
\* around it
PersonIdentity(name) == strip(lower(name))

\* the persons that list_people() returns without filters, by identity
ListedPeople ==
    { PersonIdentity(p.name) :
        p \in list_people(redis, [include_details |-> TRUE]).result.data }

\* the step is one call of operation; its answer is in ret'
CalledTool(operation) == ret = NoResult /\ ret'.fn = operation

\* C40: list_people() without filters returns the persons created and not
\* deleted since, a person being its lower-cased, trimmed name: nobody is
\* listed at first; a create_person that succeeds adds the identity of its
\* name, which was not listed; create_person on a listed identity fails and
\* changes nothing; update_person never changes who is listed, and on a
\* missing person it fails and changes nothing; a delete_person that succeeds
\* removes the identity, and on a missing person it fails and changes
\* nothing; list_people changes nothing
C40_PeopleStore ==
    /\ ListedPeople = {}
    /\ [][LET id == PersonIdentity(ret'.name)
          IN  /\ CalledTool("create_person") =>
                   /\ ret'.ok => id \notin ListedPeople /\ ListedPeople' = ListedPeople \cup {id}
                   /\ id \in ListedPeople => ~ret'.ok
                   /\ ~ret'.ok => redis' = redis
              /\ CalledTool("update_person") =>
                   /\ ListedPeople' = ListedPeople
                   /\ id \notin ListedPeople => ~ret'.ok /\ redis' = redis
              /\ CalledTool("delete_person") =>
                   /\ ret'.ok => id \in ListedPeople /\ ListedPeople' = ListedPeople \ {id}
                   /\ id \notin ListedPeople => ~ret'.ok
                   /\ ~ret'.ok => redis' = redis
              /\ CalledTool("list_people") =>
                   /\ redis' = redis
                   /\ { PersonIdentity(p.name) : p \in ret'.value.json.data } = ListedPeople
         ]_vars

\* C40: create_person was refused for a name that is not empty and whose
\* identity is listed under another spelling
C40_Witness ==
    /\ ret.fn = "create_person"
    /\ ~ret.ok
    /\ ret.name # <<>>
    /\ \E p \in list_people(redis, [include_details |-> TRUE]).result.data :
         /\ PersonIdentity(p.name) = PersonIdentity(ret.name)
         /\ p.name # ret.name
    /\ Cardinality(ListedPeople) >= 2

\* a is the beginning of b
IsPrefix(a, b) == Len(a) <= Len(b) /\ SubSeq(b, 1, Len(a)) = a

\* C39: two requests that add a date to the same person both take effect:
\* no step removes an entry from the dates stored for a person, so that the
\* entries the person had and the entry of the other request are kept, and a
\* request that returns success has its own entry among the stored dates.
C39_BothDatesKept ==
    [][/\ \A n \in PersonNames :
            IsPrefix(StoredDates(redis, n), StoredDates(redis', n))
       /\ \A t \in Tasks : \A fn \in DateHandlers :
            Returns(t, fn) /\ ret'.ok =>
              \E i \in 1..Len(StoredDates(redis', Top(t).name)) :
                 StoredDates(redis', Top(t).name)[i] = Top(t).acc[1]]_vars

====
